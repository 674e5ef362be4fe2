---------------------------- MODULE WriteBackStore ----------------------------
(***************************************************************************)
(* What a write-back sector cache promises to the file system above it:    *)
(* the sectors behave as one array, read and written through calls that    *)
(* proceed sector range by sector range; the array survives a power loss   *)
(* only as far as it has been destaged to the medium.                      *)
(*                                                                         *)
(* NorCache implements this specification when one thread drives it.       *)
(***************************************************************************)
EXTENDS Integers

CONSTANTS Sectors,  \* the sector numbers the file system uses
          Values,   \* the contents a sector can be given
          Threads,  \* the callers
          Units,    \* the sets of sectors the medium programs together
          Torn      \* content of a sector whose programming was interrupted

VARIABLES content,  \* what the next read of each sector returns
          saved,    \* what the medium holds
          call      \* the call each thread is in

\* No call, a read or a write of the range [from, to], or a flush.
None  == [op |-> "none"]
Flush == [op |-> "flush"]
Transfers == [op : {"read"}, from : Sectors, to : Sectors]
             \cup [op : {"write"}, from : Sectors, to : Sectors, val : Values]

Init ==
  /\ content \in [Sectors -> Values]
  /\ saved = content
  /\ call = [t \in Threads |-> None]

Call(t) ==
  /\ call[t] = None
  /\ \E c \in Transfers \cup {Flush} : call' = [call EXCEPT ![t] = c]
  /\ UNCHANGED <<content, saved>>

(* The write in progress stores its value in the next sectors of its range.*)
Put(t) ==
  /\ call[t].op = "write"
  /\ \E to \in call[t].from .. call[t].to :
       content' = [s \in Sectors |-> IF s \in call[t].from .. to
                                     THEN call[t].val ELSE content[s]]
  /\ UNCHANGED <<saved, call>>

(* The call has dealt with the sectors up to "to" and goes on after them.  *)
Advance(t) ==
  /\ call[t].op \in {"read", "write"}
  /\ \E to \in call[t].from .. call[t].to :
       /\ call[t].op = "write" => \A s \in call[t].from .. to : content[s] = call[t].val
       /\ call' = [call EXCEPT ![t] = IF to = call[t].to THEN None
                                      ELSE [@ EXCEPT !.from = to + 1]]
  /\ UNCHANGED <<content, saved>>

(* Some sectors reach the medium.                                          *)
Destage ==
  /\ \E S \in SUBSET Sectors :
       saved' = [s \in Sectors |-> IF s \in S THEN content[s] ELSE saved[s]]
  /\ UNCHANGED <<content, call>>

(* A flush returns once the medium holds everything.                       *)
FlushDone(t) ==
  /\ call[t] = Flush
  /\ saved = content
  /\ call' = [call EXCEPT ![t] = None]
  /\ UNCHANGED <<content, saved>>

(* A power loss: what was not destaged is gone, and at most one unit is    *)
(* caught while it is being programmed.                                    *)
PowerLoss ==
  /\ \E u \in Units \cup {{}}, torn \in BOOLEAN :
       saved' = [s \in Sectors |-> IF s \notin u THEN saved[s]
                                 ELSE IF torn THEN Torn ELSE content[s]]
  /\ content' = saved'
  /\ call' = [t \in Threads |-> None]

Next ==
  \/ \E t \in Threads : Call(t) \/ Put(t) \/ Advance(t) \/ FlushDone(t)
  \/ Destage
  \/ PowerLoss

vars == <<content, saved, call>>

Spec == Init /\ [][Next]_vars
===============================================================================
