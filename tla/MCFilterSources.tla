--------------------------- MODULE MCFilterSources ---------------------------
(* A small instance of FilterSources for TLC. *)
EXTENDS FilterSources, TLC

Interchangeable == Permutations(Handlers)

\* Edits of user rules and rollbacks meet downloads and the loop, not other
\* requests; two requests that edit subscriptions meet each other.
MeetsNoOther ==
  \A g, h \in Handlers :
    g # h /\ handler[g].pc \in {"reload", "set", "persist", "write"}
      => handler[h].pc = "idle"
=============================================================================
