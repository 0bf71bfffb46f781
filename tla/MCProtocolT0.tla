---------------------------- MODULE MCProtocolT0 ----------------------------
(* Commands of every case, with lengths below, at and above the short limit.  *)
EXTENDS ProtocolT0

Cmd(c, lc, e) == [case |-> c, lc |-> lc, le |-> e]

MCApdus ==
    {Cmd("malformed", 0, 0), Cmd("1", 0, 0), Cmd("2S", 2, 0),
     Cmd("2E", 2, 0), Cmd("2E", Short, 0)}
      \cup {Cmd("3S", 0, e) : e \in {1, Short}}
      \cup {Cmd("4S", 2, e) : e \in {1, Short}}
      \cup {Cmd("3E", 0, e) : e \in {1, Short + 1, 2 * Short + 1}}
      \cup {Cmd("4E", 2, e) : e \in {1, 2 * Short + 1}}
      \cup {Cmd("4E", Short, Short + 1)}

\* A command with an extended Le alone.
MCExtendedLe == {Cmd("3E", 0, 2 * Short + 1)}
=============================================================================
