----------------------------- MODULE CodemodEngine -----------------------------
(***************************************************************************)
(* The engine that turns a React class into a function with hooks.  The    *)
(* action of a rule is its whole pass over the class; what the class says  *)
(* about a rule is chosen when the rule reads it.                          *)
(*                                                                         *)
(* Syntax trees are abstracted to what decides whether the output works:   *)
(* the names the function declares, with the rule that declared each, the  *)
(* hooks it calls and imports, and the places where `this' is left.  Rules *)
(* rewrite the class in place, but the lists and the expressions some      *)
(* rules took from it before are copies the rewriting does not reach.      *)
(***************************************************************************)
EXTENDS Naturals, Sequences, FiniteSets

CONSTANTS Keys,         \* keys of the state
          Props,        \* properties of the component
          MaxFeatures   \* bound on what a class has for the rules to find

VARIABLES stage,    \* the next rule
          cls,      \* what later rules need to know of the class
          fn,       \* the function under construction
          features  \* found so far

engineVars == <<stage, cls, fn, features>>

Setter(key) == "set" \o key
Declares(rule, names) == {[name |-> n, by |-> rule, at |-> 0] : n \in names}
DeclaresAgain(rule, name) == {[name |-> name, by |-> rule, at |-> features]}

(* A rule finds n more features in the class.                                 *)
One(condition) == IF condition THEN 1 ELSE 0
Finds(n) == features + n <= MaxFeatures /\ features' = features + n

(* The function with what a rule added: hooks it calls, names it declares.   *)
With(hooks, decls) == [fn EXCEPT !.needed = @ \cup hooks, !.called = @ \cup hooks,
                                 !.decls = @ \cup decls]

EngineInit ==
    /\ stage = "types" /\ features = 0
    /\ cls = [pure |-> FALSE, defaults |-> {}, copied |-> {}, derived |-> {},
              vars |-> {}, refs |-> {}, fields |-> {}]
    /\ fn = [needed |-> {}, called |-> {}, decls |-> {}, leftover |-> {}, memo |-> FALSE,
             imported |-> {}, taken |-> {}, state |-> "building"]

-----------------------------------------------------------------------------
(* Types, statics, context and default properties.                           *)

(* A class whose base is not React's is left as it is.                       *)
isReactComponent(base) == base \in {"Component", "PureComponent"}

(* With default properties the parameter is a pattern: they are names of     *)
(* their own and `props' is the rest.                                        *)
propsParam(defaults) == Declares("param", defaults \cup {"props"})

processTypesAndStatics ==
    /\ stage = "types"
    /\ \E base \in {"Component", "PureComponent", "other"}, defaults \in SUBSET Props,
          contextType \in BOOLEAN :
         LET hooks == IF contextType THEN {"useContext"} ELSE {} IN
         /\ Finds(One(base = "PureComponent") + Cardinality(defaults) + One(contextType))
         /\ IF isReactComponent(base)
            THEN /\ stage' = "lifecycle"
                 /\ cls' = [cls EXCEPT !.pure = base = "PureComponent", !.defaults = defaults]
                 /\ fn' = [fn EXCEPT !.needed = hooks, !.called = hooks,
                        !.decls = propsParam(defaults) \cup
                            Declares("contextType", IF contextType THEN {"context"} ELSE {})]
            ELSE stage' = "imports" /\ UNCHANGED <<cls, fn>>

-----------------------------------------------------------------------------
(* Lifecycle methods.  Each rule gives what it adds to the function.         *)

Nothing == [needed |-> {}, called |-> {}, decls |-> {}, copied |-> {}, derived |-> {},
            memo |-> FALSE]

(* The keys returned at the end become constants and no state; those         *)
(* returned under a condition are set and stay state.                         *)
derivedState(returned) ==
    [Nothing EXCEPT !.decls = Declares("derived", returned), !.derived = returned]

snapshot == [Nothing EXCEPT !.needed = {"useRef", "useLayoutEffect"},
                            !.called = {"useRef", "useLayoutEffect"},
                            !.decls = Declares("snapshot", {"snapshotRef"})]

(* An asynchronous mount keeps its block; the statements of another one are  *)
(* copied into the effect.  The body of unmount is kept as it is.             *)
mountAndUnmount(async) ==
    [Nothing EXCEPT !.needed = {"useEffect"}, !.called = {"useEffect"},
                    !.copied = IF async THEN {} ELSE {"mount"}]

didUpdate(prevProps) ==
    LET hooks == IF prevProps THEN {"useEffect", "useRef"} ELSE {"useEffect"} IN
    [Nothing EXCEPT !.needed = hooks, !.called = hooks, !.copied = {"update"},
                    !.decls = Declares("update", IF prevProps THEN {"prevPropsRef", "prevProps"}
                                                 ELSE {})]

shouldUpdate == [Nothing EXCEPT !.needed = {"memo"}, !.memo = TRUE]

(* Every part goes into the function.                                         *)
AddParts(parts) ==
    /\ Finds(Cardinality(parts \ {Nothing}))
    /\ cls' = [cls EXCEPT !.copied = UNION {p.copied : p \in parts},
                          !.derived = UNION {p.derived : p \in parts}]
    /\ fn' = [fn EXCEPT !.needed = @ \cup UNION {p.needed : p \in parts},
                        !.called = @ \cup UNION {p.called : p \in parts},
                        !.decls = @ \cup UNION {p.decls : p \in parts},
                        !.memo = \E p \in parts : p.memo]

processLifecycleMethods ==
    /\ stage = "lifecycle" /\ stage' = "state"
    /\ \E derived \in {Nothing} \cup {derivedState(r) : r \in SUBSET Keys},
          snap \in {Nothing, snapshot},
          mount \in {Nothing, mountAndUnmount(TRUE), mountAndUnmount(FALSE)},
          update \in {Nothing} \cup {didUpdate(p) : p \in BOOLEAN},
          should \in {Nothing, shouldUpdate} :
         AddParts({derived, snap, mount, update, should})

-----------------------------------------------------------------------------
(* State.                                                                     *)

(* Keys of the class field, then those of the constructor that are new; a    *)
(* state that is no object is one key.                                        *)
extractStateDefinitions(field, constructor) == field \cup constructor
StateSources == (SUBSET Keys) \cup {{"state"}}

createStateHookDeclarations(keys) ==
    Declares("state", keys \cup {Setter(k) : k \in keys})

(* An initial value that is itself a member of `this' was taken before the   *)
(* rewriting replaces it in the class.                                        *)
DeclareState(own, bare) ==
    /\ cls' = [cls EXCEPT !.vars = own]
    /\ fn' = [With(IF own = {} THEN {} ELSE {"useState"}, createStateHookDeclarations(own))
               EXCEPT !.leftover = IF bare /\ own # {} THEN @ \cup {"initial"} ELSE @]

extractState ==
    /\ stage = "state" /\ stage' = "bindings"
    /\ \E field \in StateSources, constructor \in StateSources, bare \in BOOLEAN :
         /\ Finds(Cardinality(field) + Cardinality(constructor) + One(bare))
         /\ DeclareState(extractStateDefinitions(field, constructor) \ cls.derived, bare)

-----------------------------------------------------------------------------
(* References, instance fields and methods.                                   *)

Members == {"node"} \cup Keys \cup {Setter(k) : k \in Keys}

fieldBinding(name, kind) ==
    [refs |-> IF kind = "createRef" THEN {name} ELSE {},
     fields |-> IF kind = "value" THEN {name} ELSE {},
     decls |-> IF kind = "none" THEN {} ELSE Declares("field " \o kind, {name})]

(* The constructor adds what the fields of its own kind have not declared.   *)
constructorBinding(b, name, kind) ==
    LET known == IF kind = "createRef" THEN b.refs ELSE b.fields IN
    IF kind \in {"none", "bind"} \/ name \in known THEN b
    ELSE [refs |-> IF kind = "createRef" THEN b.refs \cup {name} ELSE b.refs,
          fields |-> IF kind = "value" THEN b.fields \cup {name} ELSE b.fields,
          decls |-> b.decls \cup Declares("constructor " \o kind, {name})]

RefsOf(decls) == {d \in decls : d.by \in {"field createRef", "field value", "callback",
                                          "constructor createRef", "constructor value"}}

Bind(b) ==
    /\ cls' = [cls EXCEPT !.refs = b.refs, !.fields = b.fields]
    /\ fn' = With(IF RefsOf(b.decls) = {} THEN {} ELSE {"useRef"}, b.decls)

extractBindingAndRefs ==
    /\ stage = "bindings" /\ stage' = "rewrite"
    /\ \E name \in Members, field \in {"none", "createRef", "value", "method"},
          assigned \in {"none", "createRef", "value", "bind"} :
         /\ Finds(One(field # "none") + One(assigned # "none"))
         /\ Bind(constructorBinding(fieldBinding(name, field), name, assigned))

-----------------------------------------------------------------------------
(* The rewriting of the class, one expression at a time.                      *)

Rewrites == stage = "rewrite" /\ Finds(1)

(* ref={el => this.name = el}                                                 *)
JSXAttribute ==
    /\ Rewrites
    /\ cls' = [cls EXCEPT !.refs = @ \cup {"node"}]
    /\ fn' = IF "node" \in {d.name : d \in RefsOf(fn.decls)} THEN fn
             ELSE With({"useRef"}, Declares("callback", {"node"}))
    /\ UNCHANGED stage

(* <Context.Consumer>: the parameter of its function is declared at the top. *)
JSXElement ==
    /\ Rewrites
    /\ fn' = With({"useContext"}, DeclaresAgain("consumer", "value"))
    /\ UNCHANGED <<stage, cls>>

(* const { key } = this.state is removed from its list, the copy keeps it;   *)
(* with a rest element only its `this.state' is replaced.                     *)
VariableDeclaration ==
    /\ Rewrites
    /\ \E at \in {"mount", "update", "elsewhere"}, rest \in BOOLEAN :
         fn' = IF at \in cls.copied /\ ~rest
               THEN [fn EXCEPT !.leftover = @ \cup {"statement"}] ELSE fn
    /\ UNCHANGED <<stage, cls>>

forceUpdate ==
    /\ Rewrites
    /\ fn' = With({"useReducer"}, DeclaresAgain("forceUpdate", "forceUpdate"))
    /\ UNCHANGED <<stage, cls>>

(* The keys a call of setState sets: those of the object, or of the object   *)
(* an updater returns (none when it returns something else); for a variable  *)
(* those of its initial object that are state, else every one.                *)
settersOf(arg, keys) ==
    CASE arg \in {"object", "updater"} -> keys
      [] arg = "opaque" -> {}
      [] arg = "variable" -> IF keys \cap cls.vars # {} THEN keys \cap cls.vars ELSE cls.vars

(* More than one setter, or a callback, replaces the statement in its list;  *)
(* one setter replaces the call; a callback elsewhere stays.                  *)
transformSetStateCallNode ==
    /\ Rewrites
    /\ \E arg \in {"object", "updater", "opaque", "variable"}, keys \in SUBSET Keys,
          callback \in BOOLEAN, statement \in BOOLEAN, at \in {"mount", "update", "elsewhere"} :
         LET set == settersOf(arg, keys)
             many == statement /\ (Cardinality(set) > 1 \/ callback)
             stays == set = {} \/ (many /\ at \in cls.copied)
                      \/ (~statement /\ callback /\ Cardinality(set) = 1)
         IN fn' = IF stays THEN [fn EXCEPT !.leftover = @ \cup {"setState"}] ELSE fn
    /\ UNCHANGED <<stage, cls>>

(* Every other member of `this' is replaced where it stands; a setState that *)
(* is not called, and a state that is assigned to, are not.                   *)
MemberExpression ==
    /\ Rewrites
    /\ \E kept \in BOOLEAN :
         fn' = IF kept THEN [fn EXCEPT !.leftover = @ \cup {"member"}] ELSE fn
    /\ UNCHANGED <<stage, cls>>

-----------------------------------------------------------------------------
(* Assembly, imports and validation.                                          *)

assemble ==
    /\ stage = "rewrite" /\ stage' = "imports"
    /\ fn' = IF cls.pure \/ fn.memo THEN [fn EXCEPT !.needed = @ \cup {"memo"}] ELSE fn
    /\ UNCHANGED <<cls, features>>

(* A hook that the file imports by whatever local name, or as a type only,  *)
(* counts as imported: it is `taken', and its own name stays unbound.        *)
updateReactImportsOfExisting ==
    /\ stage = "imports" /\ stage' = "validate"
    /\ \E source \in {"none", "default", "named"} :
         fn' = [fn EXCEPT !.imported = IF source = "none" THEN @ ELSE @ \cup fn.needed]
    /\ UNCHANGED <<cls, features>>

(* The import from react gets the hooks that are not taken; without one, an   *)
(* import with the default is added if a hook is needed.                      *)
updateReactImports ==
    /\ stage = "imports" /\ stage' = "validate"
    /\ \/ \E source \in {"default", "named"}, taken \in SUBSET fn.needed :
            fn' = [fn EXCEPT !.taken = taken,
                     !.imported = (fn.needed \ taken) \cup (IF source = "default" THEN {"React"} ELSE {})]
       \/ fn' = IF fn.needed # {} THEN [fn EXCEPT !.imported = fn.needed \cup {"React"}] ELSE fn
    /\ UNCHANGED <<cls, features>>

(* The parser refuses a name declared twice in one function.                  *)
validateTransformedCode == \A d, e \in fn.decls : d.name = e.name => d = e

modernizeReactCode ==
    /\ stage = "validate" /\ stage' = "done"
    /\ fn' = [fn EXCEPT !.state = IF validateTransformedCode THEN "success" ELSE "invalid"]
    /\ UNCHANGED <<cls, features>>

EngineNext ==
    \/ processTypesAndStatics \/ processLifecycleMethods \/ extractState
    \/ extractBindingAndRefs \/ JSXAttribute \/ JSXElement \/ VariableDeclaration
    \/ forceUpdate \/ transformSetStateCallNode \/ MemberExpression
    \/ assemble \/ updateReactImports \/ modernizeReactCode

EngineSpec == EngineInit /\ [][EngineNext]_engineVars

-----------------------------------------------------------------------------
(* Whatever rules added a hook, a function that is answered as a success     *)
(* binds every hook it calls by name, but for those the file had imported    *)
(* under another name or as a type only.                                     *)
HooksAreImported == fn.state = "success" => fn.called \subseteq fn.imported \cup fn.taken

(* Without the exception.  It does not hold: a file with                     *)
(* `import { useState as useLocal } from "react"' is answered as a success   *)
(* that calls an unbound useState.                                           *)
HooksAreBound == fn.state = "success" => fn.called \subseteq fn.imported

(* The tests say of a converted class that its code has no this left.        *)
NoThisLeft == fn.state = "success" => fn.leftover = {}
=============================================================================
