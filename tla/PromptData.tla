------------------------------ MODULE PromptData ------------------------------
(***************************************************************************)
(* Values of prompt/prompt.go: what New is given, what a call renders, and *)
(* what the messages of a call are.  No state.                             *)
(***************************************************************************)
EXTENDS Integers, Sequences

CONSTANTS
    VarName, Value,
    Literal,      \* literal text of fragments, and history contents
    Key,          \* metadata keys
    Nil

\* "fails" is a text/template action that cannot be executed.
Segment == [kind : {"lit"}, x : Literal] \union [kind : {"var"}, x : VarName]
             \union [kind : {"fails"}, x : {Nil}]
Fragment == [ok : BOOLEAN, segs : Seq(Segment)]
Role == {"system", "user", "assistant", "tool"}
Text == Seq(Literal \union Value)
Message == [role : Role, content : Text, images : BOOLEAN]
Vars == UNION { [D -> Value] : D \in SUBSET VarName }
Metadata == UNION { [D -> Value] : D \in SUBSET Key }

\* user is Nil when it is blank, system when it is empty, metadata when nil.
Spec == [system : Fragment \union {Nil}, user : Fragment \union {Nil},
         fewShot : Seq([role : Role, content : Fragment]),
         historySlot : {"BeforeUser", "NoHistory"}, engine : {"brace", "go", "other"},
         metadata : Metadata \union {Nil}]

\* A variable that is missing, or an action that fails.
RenderErrors == ({"ErrMissingVar"} \X VarName) \union {<<"execute">>}

-----------------------------------------------------------------------------
\* The conditions New checks before it returns a template.
Compiles(s, f) == s.engine # "other" /\ f.ok
Valid(s) == /\ s.user # Nil
            /\ s.system # Nil => Compiles(s, s.system)
            /\ \A k \in 1 .. Len(s.fewShot) : Compiles(s, s.fewShot[k].content)
            /\ Compiles(s, s.user)

\* Map m with k set to v.
Put(m, k, v) == [x \in DOMAIN m \union {k} |-> IF x = k THEN v ELSE m[x]]

-----------------------------------------------------------------------------
\* The positions where a fragment cannot be rendered, and the error of the first.
Failing(f, v) == {k \in 1 .. Len(f.segs) :
                    \/ f.segs[k].kind = "fails"
                    \/ f.segs[k].kind = "var" /\ f.segs[k].x \notin DOMAIN v}
RenderError(f, v) ==
    LET s == f.segs[CHOOSE k \in Failing(f, v) : \A j \in Failing(f, v) : k <= j]
    IN IF s.kind = "var" THEN <<"ErrMissingVar", s.x>> ELSE <<"execute">>

Rendered(f, v) == [k \in 1 .. Len(f.segs) |->
                     IF f.segs[k].kind = "lit" THEN f.segs[k].x ELSE v[f.segs[k].x]]

Turn(role, content) == [role |-> role, content |-> content, images |-> FALSE]

\* The fragments a call renders, in the order of the messages.
Fragments(s) == (IF s.system = Nil THEN <<>> ELSE <<s.system>>)
                  \o [k \in 1 .. Len(s.fewShot) |-> s.fewShot[k].content]
                  \o <<s.user>>

\* The messages of a call: system, few-shot, history, user; the history as it
\* was given unless the template ignores it (prompt.go:46-56, 168-198).
Layout(s, v, h) ==
    LET turn(role, f) == Turn(role, Rendered(f, v))
    IN (IF s.system = Nil THEN <<>> ELSE <<turn("system", s.system)>>)
         \o [k \in 1 .. Len(s.fewShot) |-> turn(s.fewShot[k].role, s.fewShot[k].content)]
         \o (IF s.historySlot = "BeforeUser" THEN h ELSE <<>>)
         \o <<turn("user", s.user)>>
=============================================================================
