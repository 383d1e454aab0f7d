--------------------------- MODULE MCAccessRollup ---------------------------
(* Files at several depths, three in one directory, one the directory of   *)
(* another (a directory can be opened, too), and a relative one.           *)
EXTENDS AccessRollup

CONSTANTS a, b, c

Absolute(s) == [abs |-> TRUE, names |-> s]
Relative(s) == [abs |-> FALSE, names |-> s]

SomeFiles ==
  {Absolute(<<a>>), Absolute(<<a, b>>), Absolute(<<b, a, a>>), Absolute(<<b, a, b>>),
   Absolute(<<b, a, c>>), Absolute(<<c, c, c>>), Relative(<<a, b>>)}

=============================================================================
