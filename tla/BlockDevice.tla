---------------------------- MODULE BlockDevice ----------------------------
(***************************************************************************)
(* What a virtio device promises its driver, without rings and indices:    *)
(* requests are served one at a time in the order of their submission,     *)
(* each exactly once, and are handed back in that order.                   *)
(***************************************************************************)
EXTENDS Naturals, Sequences

CONSTANTS Heads,          \* descriptor chains
          Requests,       \* what a chain may ask for
          Contents,       \* the contents of the medium
          Served(_, _),   \* the request as the device leaves it, for a medium
          After(_, _)     \* the medium once the request is served

VARIABLES pending,  \* Seq(Heads): submitted, not yet served
          done,     \* Seq(Heads): served, not yet handed back
          chain,    \* the request in each chain
          medium    \* the disk, or the terminal's last character

absVars == <<pending, done, chain, medium>>

AbsInit == pending = <<>> /\ done = <<>> /\ chain \in [Heads -> Requests] /\ medium \in Contents

Elements(s) == { s[i] : i \in DOMAIN s }

Submit(h, r) ==
  /\ h \notin Elements(pending) \cup Elements(done)
  /\ pending' = Append(pending, h)
  /\ chain' = [chain EXCEPT ![h] = r]
  /\ UNCHANGED <<done, medium>>

Serve ==
  /\ pending # <<>>
  /\ LET h == Head(pending)
     IN  /\ done' = Append(done, h)
         /\ chain' = [chain EXCEPT ![h] = Served(chain[h], medium)]
         /\ medium' = After(chain[h], medium)
  /\ pending' = Tail(pending)

Collect ==
  /\ done # <<>>
  /\ done' = Tail(done)
  /\ UNCHANGED <<pending, chain, medium>>

AbsNext == (\E h \in Heads, r \in Requests : Submit(h, r)) \/ Serve \/ Collect

AbsSpec == AbsInit /\ [][AbsNext]_absVars
=============================================================================
