----------------------------- MODULE MCConfigEdit -----------------------------
(* ConfigEdit for TLC: a short document without a newline at its end, so that the
   rest of the longer one can continue its credential, one that is incomplete,
   and the template the install script leaves. *)
EXTENDS ConfigEdit

Short       == <<"a", "q">>
Long        == <<"b", "p", "p", Newline, "c", "q">>
Broken      == <<"a", "q", Newline, "c">>
Template    == <<Remark, Newline>>
MCListeners == {"a", "b", "c"}
MCText      == {"p", "q"}
MCDocs      == {Short, Long, Broken}
Installed   == {Template}
Edited      == {Short}      \* the operator has filled it in
=============================================================================
