------------------------------ MODULE FlatStore ------------------------------
(***************************************************************************)
(* What the buffered storage promises to its callers: an array `mem` that  *)
(* they read and write, and an array `stable` that survives a reset.  The  *)
(* two drift apart only by stores that have not been synchronised yet, a   *)
(* synchronisation always makes all of them stable, and a reset falls back *)
(* to `stable`, never to a mixture nobody ever wrote.                      *)
(***************************************************************************)
CONSTANTS Addr,         \* the addresses of the array
          Cell,         \* what an address holds
          SamePage(_, _)  \* whether two addresses are programmed together

VARIABLES mem, stable

vars == <<mem, stable>>

Init == mem \in [Addr -> Cell] /\ stable = mem

\* The two arrays differ at most within cells that are programmed together.
WithinOnePage(f, h) ==
  \A a, b \in Addr : f[a] # h[a] /\ f[b] # h[b] => SamePage(a, b)

\* A store touches cells of one page only.  The stores before it may become
\* stable on the way, all of them or none, and they have to when they touched
\* another page: what a reset can lose stays within one page.
Store ==
  /\ mem' \in [Addr -> Cell]
  /\ stable' \in {stable, mem}
  /\ WithinOnePage(mem', mem)
  /\ WithinOnePage(mem', stable')

Sync == UNCHANGED mem /\ stable' = mem

Reset == UNCHANGED stable /\ mem' = stable

Next == Store \/ Sync \/ Reset

Spec == Init /\ [][Next]_vars

=============================================================================
