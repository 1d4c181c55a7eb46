---------------------------- MODULE SelectManager ----------------------------
(***************************************************************************)
(* SelectManager (src/src/net/SelectManager.cpp): one loop thread calls    *)
(* handleEvent over and over; any thread changes a channel's events        *)
(* (Channel.h:76-91, no lock) and calls updateChannel or removeChannel     *)
(* (under SelectManager's own mutex_, each one step here).                 *)
(*                                                                         *)
(* The loop keeps a copy of each descriptor set between its turns.  Three  *)
(* flags say which copies are out of date.  handleEvent reads the flags    *)
(* twice without the mutex before it takes it to rebuild the copies, waits *)
(* in select() without it, takes it again to collect the ready channels    *)
(* and dispatches them without it.                                         *)
(***************************************************************************)
EXTENDS Integers, FiniteSetsExt

CONSTANTS FdSetSize,     \* FD_SETSIZE: an fd_set holds the descriptors below it
          Fds,           \* the descriptors the channels stand for
          Wakeup         \* TaskScheduler's wake-up channel, registered by the constructor

ASSUME FdAssumption == /\ FdSetSize \in Nat
                       /\ Fds \subseteq 0 .. FdSetSize - 1
                       /\ Wakeup \in Fds

VARIABLES
  channels_,       \* registered descriptors
  events_,         \* Channel::events_ of each descriptor's channel
  unpublished,     \* descriptors whose events changed with no updateChannel since
  reset_,          \* the kinds k whose flag is_fd_k_reset_ is set
  backup_,         \* fd_read_backup_, fd_write_backup_, fd_exp_backup_
  max_fd_,
  pc,              \* where the loop stands in handleEvent
  result,          \* the sets that select() left
  event_list,      \* collected and not yet dispatched: [fd, events]
  readable         \* descriptors with unread data

chanVars == <<channels_, events_, unpublished, readable>>
loopVars == <<backup_, max_fd_, pc, result, event_list>>
vars == <<chanVars, reset_, loopVars>>

Kinds == {"read", "write", "exp"}
None == [k \in Kinds |-> {}]

\* max_fd_ is not initialised; the first rebuild zeroes it.
Init == /\ channels_ = {Wakeup}
        /\ events_ = [f \in Fds |-> IF f = Wakeup THEN {"IN"} ELSE {}]
        /\ unpublished = {}
        /\ reset_ = Kinds
        /\ backup_ = None
        /\ max_fd_ \in Fds \cup {0}
        /\ pc = "turn" /\ result = None /\ event_list = {}
        /\ readable = {}

-----------------------------------------------------------------------------
(* Any thread, on a channel of its own (not the wake-up channel) *)

\* enableReading, enableWriting, disableReading, disableWriting
ChangeEvents(f) ==
  \E e \in {"IN", "OUT"} :
    /\ events_' = [events_ EXCEPT ![f] = IF e \in @ THEN @ \ {e} ELSE @ \cup {e}]
    /\ unpublished' = unpublished \cup {f}
    /\ UNCHANGED <<channels_, readable, reset_, loopVars>>

\* Mutant: a registered channel that no longer wants events marks only the
\* two sets it may be in.
UpdateForgetsExp(f) ==
  /\ \/ /\ f \in channels_ /\ events_[f] = {}
        /\ channels_' = channels_ \ {f} /\ reset_' = reset_ \cup {"read", "write"}
     \/ /\ f \in channels_ /\ events_[f] # {}
        /\ reset_' = reset_ \cup {"write"} /\ UNCHANGED channels_
     \/ /\ f \notin channels_ /\ events_[f] # {}
        /\ channels_' = channels_ \cup {f} /\ reset_' = Kinds
  /\ unpublished' = unpublished \ {f}
  /\ UNCHANGED <<events_, readable, loopVars>>

\* Mutant: a registered channel's new events mark nothing.
UpdateMarksNothing(f) ==
  /\ \/ /\ f \in channels_ /\ events_[f] = {}
        /\ channels_' = channels_ \ {f} /\ reset_' = Kinds
     \/ /\ f \notin channels_ /\ events_[f] # {}
        /\ channels_' = channels_ \cup {f} /\ reset_' = Kinds
     \/ /\ f \in channels_ /\ events_[f] # {}
        /\ UNCHANGED <<channels_, reset_>>
  /\ unpublished' = unpublished \ {f}
  /\ UNCHANGED <<events_, readable, loopVars>>

\* A registered channel whose events change marks the write set only
\* (SelectManager.cpp:33 is commented out).
updateChannel(f) ==
  /\ \/ /\ f \in channels_ /\ events_[f] = {}
        /\ channels_' = channels_ \ {f} /\ reset_' = Kinds
     \/ /\ f \in channels_ /\ events_[f] # {}
        /\ reset_' = reset_ \cup {"write"} /\ UNCHANGED channels_
     \/ /\ f \notin channels_ /\ events_[f] # {}
        /\ channels_' = channels_ \cup {f} /\ reset_' = Kinds
  /\ unpublished' = unpublished \ {f}
  /\ UNCHANGED <<events_, readable, loopVars>>

removeChannel(f) ==
  /\ f \in channels_
  /\ channels_' = channels_ \ {f} /\ reset_' = Kinds
  /\ UNCHANGED <<events_, unpublished, readable, loopVars>>

\* The peer sends, or a trigger is posted and writes to the wake-up pipe.
DataArrives(f) ==
  /\ f \notin readable
  /\ readable' = readable \cup {f}
  /\ UNCHANGED <<channels_, events_, unpublished, reset_, loopVars>>

-----------------------------------------------------------------------------
(* The loop: handleEvent *)

\* `if (channels_.empty())`: sleep and return.  Otherwise read the flags.
Turn == /\ pc = "turn"
        /\ pc' = IF channels_ = {} THEN "turn" ELSE IF reset_ = {} THEN "select" ELSE "zero"
        /\ UNCHANGED <<chanVars, reset_, backup_, max_fd_, result, event_list>>

ZeroMax == /\ pc = "zero"
           /\ max_fd_' = IF "exp" \in reset_ THEN 0 ELSE max_fd_
           /\ pc' = "rebuild"
           /\ UNCHANGED <<chanVars, reset_, backup_, result, event_list>>

Wanted(k) == {f \in channels_ : k = "exp" \/ (k = "read" /\ "IN" \in events_[f])
                                           \/ (k = "write" /\ "OUT" \in events_[f])}

\* Mutant: max_fd_ is raised only by readers.
RebuildReadMax ==
  /\ pc = "rebuild"
  /\ backup_' = [k \in Kinds |-> IF k \in reset_ THEN Wanted(k) ELSE backup_[k]]
  /\ reset_' = {}
  /\ max_fd_' = IF "exp" \in reset_ THEN Max(Wanted("read") \cup {max_fd_}) ELSE max_fd_
  /\ pc' = "select"
  /\ UNCHANGED <<chanVars, result, event_list>>

\* Under the mutex: rebuild the sets that are out of date, clear the flags.
Rebuild ==
  /\ pc = "rebuild"
  /\ backup_' = [k \in Kinds |-> IF k \in reset_ THEN Wanted(k) ELSE backup_[k]]
  /\ reset_' = {}
  /\ max_fd_' = IF "exp" \in reset_ THEN Max(channels_ \cup {max_fd_}) ELSE max_fd_
  /\ pc' = "select"
  /\ UNCHANGED <<chanVars, result, event_list>>

\* select() ends with the ready descriptors up to max_fd_, after the time-out
\* with none.  All sockets are writable or none, and all have out-of-band data
\* or none: nothing below tells those apart one by one.
SelectReturns ==
  /\ pc = "select"
  /\ \E writable, urgent \in {{}, Fds} :
       LET ready == [read |-> readable, write |-> writable, exp |-> urgent]
       IN  result' = [k \in Kinds |-> {f \in backup_[k] \cap ready[k] : f <= max_fd_}]
  /\ pc' = IF \A k \in Kinds : result'[k] = {} THEN "turn" ELSE "collect"
  /\ UNCHANGED <<chanVars, reset_, backup_, max_fd_, event_list>>

\* A signal, or a descriptor of the copies that was closed: return.
SelectFails == /\ pc = "select"
               /\ pc' = "turn"
               /\ UNCHANGED <<chanVars, reset_, backup_, max_fd_, result, event_list>>

Events(f) == {e \in {"IN", "OUT", "HUP"} :
                f \in result[CASE e = "IN" -> "read" [] e = "OUT" -> "write"
                               [] e = "HUP" -> "exp"]}

\* Mutant: only one ready channel is collected.
CollectFirst ==
  /\ pc = "collect"
  /\ event_list' = LET hits == {f \in channels_ : Events(f) # {}}
                   IN  IF hits = {} THEN {} ELSE {[fd |-> Max(hits), events |-> Events(Max(hits))]}
  /\ result' = None
  /\ pc' = "dispatch"
  /\ UNCHANGED <<chanVars, reset_, backup_, max_fd_>>

\* Under the mutex: the registered channels that are ready.
Collect ==
  /\ pc = "collect"
  /\ event_list' = {r \in {[fd |-> f, events |-> Events(f)] : f \in channels_} : r.events # {}}
  /\ result' = None
  /\ pc' = "dispatch"
  /\ UNCHANGED <<chanVars, reset_, backup_, max_fd_>>

\* Channel::handleEvent; the read callback takes the data.
Dispatch ==
  /\ pc = "dispatch"
  /\ \/ /\ event_list = {}
        /\ pc' = "turn"
        /\ UNCHANGED <<event_list, readable>>
     \/ \E r \in event_list :
          /\ event_list' = event_list \ {r}
          /\ readable' = IF "IN" \in r.events THEN readable \ {r.fd} ELSE readable
          /\ UNCHANGED pc
  /\ UNCHANGED <<channels_, events_, unpublished, reset_, backup_, max_fd_, result>>

handleEvent == Turn \/ ZeroMax \/ Rebuild \/ SelectReturns \/ Collect \/ Dispatch

-----------------------------------------------------------------------------
Next == \/ handleEvent \/ SelectFails
        \/ \E f \in Fds \ {Wakeup} : ChangeEvents(f) \/ updateChannel(f) \/ removeChannel(f)
        \/ \E f \in Fds : DataArrives(f)

Spec == Init /\ [][Next]_vars

\* The loop keeps turning; select() is not interrupted every time.
Fairness == WF_vars(handleEvent) /\ SF_vars(SelectReturns)

FairSpec == Spec /\ Fairness

-----------------------------------------------------------------------------
Record == [fd : Fds, events : (SUBSET {"IN", "OUT", "HUP"}) \ {{}}]

TypeOK == /\ channels_ \subseteq Fds
          /\ events_ \in [Fds -> SUBSET {"IN", "OUT"}]
          /\ reset_ \subseteq Kinds
          /\ backup_ \in [Kinds -> SUBSET Fds] /\ result \in [Kinds -> SUBSET Fds]
          /\ max_fd_ \in Nat
          /\ pc \in {"turn", "zero", "rebuild", "select", "collect", "dispatch"}
          /\ event_list \subseteq Record
          /\ readable \subseteq Fds /\ unpublished \subseteq Fds

\* Although the flags are read without the mutex (SelectManager.cpp:83-84) and
\* others register and remove channels at any moment, the cached exception set
\* is the set of registered descriptors unless its flag is set, and nothing
\* is watched for reading or writing that is not registered.
CopiesAreCurrent == "exp" \notin reset_ =>
                      /\ backup_["exp"] = channels_
                      /\ "read" \notin reset_ => backup_["read"] \subseteq channels_
                      /\ "write" \notin reset_ => backup_["write"] \subseteq channels_

\* No descriptor of the three sets exceeds the bound that select() is given
\* (SelectManager.cpp:84-105, 146): zeroing max_fd_ before the mutex is taken
\* never hides one.
MaxFdCovers == pc = "select" => \A k \in Kinds : \A f \in backup_[k] : f <= max_fd_

\* What select() is handed: sets that are current or about to be rebuilt, and a
\* bound above all of them, whatever was registered or removed since the loop
\* looked at the flags (SelectManager.cpp:83-146).
SelectArguments == CopiesAreCurrent /\ MaxFdCovers

\* A descriptor the loop watches and that has data is dispatched unless its
\* owner gives it up first, whatever other threads register and remove
\* meanwhile and however busy the other descriptors are
\* (SelectManager.cpp:159-187: one turn collects every ready channel).
Watched(f) == f \in channels_ /\ "IN" \in events_[f] /\ f \in backup_["read"]

ReadableIsHandled ==
  \A f \in Fds : (f \in readable /\ Watched(f)) ~> (f \notin readable \/ ~Watched(f))

\* Once enableWriting has been published by updateChannel, the loop watches for
\* writability, unless the owner changes its mind (SelectManager.cpp:34): the
\* flag set between the loop's two reads of it is never lost.
WantsWrite(f) == f \in channels_ /\ "OUT" \in events_[f] /\ f \notin unpublished

WriteInterestReaches ==
  \A f \in Fds : WantsWrite(f) ~> (f \in backup_["write"] \/ ~WantsWrite(f))
=============================================================================
