----------------------------- MODULE Allocator -----------------------------
(***************************************************************************)
(* What malloc(), free() and realloc() promise a program, whatever lists   *)
(* they keep: memory that is granted is the program's own until it gives   *)
(* it back.  live holds the granted regions, as [at, size, req]: `size'    *)
(* units from `at', header included, granted for `req' bytes.              *)
(***************************************************************************)
EXTENDS Integers

CONSTANT UnitBytes      \* bytes in a unit

VARIABLE live

Units(b) == b.at .. (b.at + b.size - 1)

Disjoint(b, c) == Units(b) \cap Units(c) = {}

(* One unit of a region is its header; the rest is what the program gets. *)
Holds(b, n) == (b.size - 1) * UnitBytes >= n

Init == live = {}

Grant(at, size, n) ==
  LET b == [at |-> at, size |-> size, req |-> n]
  IN  /\ \A c \in live : Disjoint(b, c)
      /\ Holds(b, n)
      /\ live' = live \cup {b}

Release(b) == live' = live \ {b}

(* The old region is still the program's when the new one is chosen. *)
Move(b, at, size, n) ==
  LET c == [at |-> at, size |-> size, req |-> n]
  IN  /\ \A d \in live : Disjoint(c, d)
      /\ Holds(c, n)
      /\ live' = (live \ {b}) \cup {c}

Resize(b, n) ==
  /\ Holds(b, n)
  /\ live' = (live \ {b}) \cup {[b EXCEPT !.req = n]}

(* A step that leaves live alone stutters, so the regions a step is about *)
(* are the ones that come or go.                                          *)
Next ==
  \/ \E c \in live' \ live : Grant(c.at, c.size, c.req)
  \/ \E b \in live \ live' : Release(b)
  \/ \E b \in live \ live', c \in live' \ live : Move(b, c.at, c.size, c.req)
  \/ \E b \in live \ live', c \in live' \ live : Resize(b, c.req)

Spec == Init /\ [][Next]_live
=============================================================================
