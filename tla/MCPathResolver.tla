--------------------------- MODULE MCPathResolver ---------------------------
(* The rows, roles and requests PathResolver is checked with. *)
EXTENDS PathResolver
PrAll == {"get.k", "get.r", "get.s", "vc", "inst"}
PrRows == [k : {"0", "1"}, r : {"", "1", "2", "3", "find"}, s : {{"1"}}] \cup {[k |-> "1", r |-> "1", s |-> {}]}
PrRoles == {PrAll, PrAll \ {"get.k"}, PrAll \ {"get.r"}, {"get.k", "get.r"}}
Ask(ops, path) == {[op |-> o, path |-> path] : o \in ops}
PrPaths ==
  Ask({"get", "valchange", "bulk"}, <<"A", "*", "k">>)
  \cup Ask({"get"}, <<"A", "*", "x">>)
  \cup Ask({"get", "bulk"}, <<"A", "k1", "r">>)
  \cup Ask({"get"}, <<"A", "rk1", "k">>)
  \cup Ask({"get", "del"}, <<"A", "rrk1", ".">>)
  \cup Ask({"get", "set"}, <<"A", "both", ".">>)
  \cup Ask({"get"}, <<"A", "x1", "k">>)
  \cup Ask({"get", "set"}, <<"A", "kx1", "k">>)
  \cup Ask({"get", "set", "subsadd"}, <<"A", "*", "S", "k1", ".">>)
  \cup Ask({"get", "valchange", "instances", "bulk", "subsadd"}, <<"A", ".">>)
  \cup Ask({"get"}, <<"A", "2", "S", ".">>)
  \cup Ask({"get", "set"}, <<"A", "*", "r", "+", ".">>)
  \cup Ask({"get", "valchange"}, <<"A", "kn1", "r", "+", "r", "+", "k">>)
  \cup Ask({"instances", "get"}, <<"A", "1", "r", "+", "S", ".">>)
====
