---------------------------- MODULE WriteRegistry ----------------------------
(***************************************************************************)
(* The write coordination registry: one row per publication intent of a    *)
(* destination, which callers reserve before they write to a provider and  *)
(* judges (detectors and operators) settle when the caller cannot.         *)
(*                                                                         *)
(* Every operation is one transaction that locks the row, compares it with *)
(* what the caller knows of it and commits; an operation that is refused   *)
(* changes nothing.  What a caller knows may be wrong: several processes   *)
(* may go by one owner name, leases run out under a caller that is still   *)
(* at work, the answer to a commit may be lost, and the answer itself is   *)
(* read after the commit, when the row may have moved on.                  *)
(*                                                                         *)
(* A caller proceeds as the interface is meant and its tests do: it starts *)
(* a write with an authority it was given, reports an outcome only of a    *)
(* write it was told it had started, and names in each call the generation *)
(* of its authority and the version of the last answer.                    *)
(***************************************************************************)
EXTENDS Naturals

CONSTANTS
  Callers,        (* processes that publish                       *)
  Owners,         (* names (owner_type, owner_id) they go by      *)
  Owner,          (* the name of each caller                      *)
  Judges,         (* sessions that surface, resolve and supersede *)
  Intents,        (* publication intents                          *)
  MaxGeneration,  (* bound: how often an intent is reserved anew  *)
  None

ASSUME RegistryAssumption ==
  /\ Owner \in [Callers -> Owners]
  /\ MaxGeneration \in Nat
  /\ None \notin Owners
  /\ None \notin Callers

VARIABLES
  row,      (* publish_write_coordination_registry, by intent       *)
  held,     (* the authority a caller has for an intent, and its use *)
  view,     (* what a judge has read of a row                       *)
  starter,  (* history: the caller that started the last write      *)
  author,   (* history: the caller that recorded how it ended       *)
  starts,   (* history: writes started                              *)
  verdicts  (* history: writes judged to have created nothing       *)

history == <<starter, author, starts, verdicts>>
vars    == <<row, held, view, history>>

-----------------------------------------------------------------------------
(* Rows and what is known of them *)

States == {"RESERVED", "WRITE_STARTED", "SUCCEEDED", "FAILED_SAFE", "AMBIGUOUS",
           "RESOLVED_SUCCEEDED", "RESOLVED_FAILED", "SUPERSEDED"}

NoRow == [state |-> "none", generation |-> 0, version |-> 0,
          owner |-> None, lapsed |-> FALSE]

Exists(i) == row[i].state # "none"

(* What a reader takes away of a row. *)
Sight(i, r) == [intent |-> i, state |-> r.state,
                generation |-> r.generation, version |-> r.version]

Sights == [intent : Intents, state : States, generation : Nat, version : Nat]

(* A caller that waits for the answer to its acquire, has the authority,
   waits for the answer to its start, or has started its write.            *)
Stages == {"acquiring", "reserved", "starting", "started"}

Token(i, r, at) == [intent |-> i, generation |-> r.generation,
                    version |-> r.version, at |-> at]

Tokens == [intent : Intents, generation : Nat, version : Nat, at : Stages]

Reservation(c, g, v) == [state |-> "RESERVED", generation |-> g, version |-> v,
                         owner |-> Owner[c], lapsed |-> FALSE]

(* cas_update_fields: the row enters a state in which no lease counts. *)
Moved(r, s) == [r EXCEPT !.state = s, !.version = @ + 1, !.lapsed = FALSE]

(* The transaction has committed; the caller goes on or gets an error. *)
Answer(c, token) ==
  \E t \in {token, held[c]} : held' = [held EXCEPT ![c] = t]

Init ==
  /\ row = [i \in Intents |-> NoRow]
  /\ held = [c \in Callers |-> None]
  /\ view = [j \in Judges |-> None]
  /\ starter = [i \in Intents |-> None]
  /\ author = [i \in Intents |-> None]
  /\ starts = [i \in Intents |-> 0]
  /\ verdicts = [i \in Intents |-> 0]

-----------------------------------------------------------------------------
(* acquire_write_authority *)

Insert(c, i) ==
  /\ ~Exists(i)
  /\ row' = [row EXCEPT ![i] = Reservation(c, 1, 0)]
  /\ Answer(c, Token(i, Reservation(c, 1, 0), "acquiring"))

(* A live reservation is given again to a caller of the same name. *)
Rejoin(c, i) ==
  /\ row[i].state = "RESERVED"
  /\ ~row[i].lapsed
  /\ row[i].owner = Owner[c]
  /\ Answer(c, Token(i, row[i], "reserved"))
  /\ UNCHANGED row

(* Fault: an ambiguous write is taken for a failed one. *)
RenewableAmbiguous(r) ==
  \/ r.state = "RESERVED" /\ r.lapsed
  \/ r.state \in {"FAILED_SAFE", "RESOLVED_FAILED", "AMBIGUOUS"}

Renewable(r) ==
  \/ r.state = "RESERVED" /\ r.lapsed
  \/ r.state \in {"FAILED_SAFE", "RESOLVED_FAILED"}

(* Fault: the reclaim does not pass through the compare-and-set. *)
RenewedUnversioned(c, r) == Reservation(c, r.generation + 1, r.version)

(* Fault: the reclaim forgets the new owner. *)
RenewedOwnerless(c, r) ==
  [Reservation(c, r.generation + 1, r.version + 1) EXCEPT !.owner = r.owner]

Renewed(c, r) == Reservation(c, r.generation + 1, r.version + 1)

Renew(c, i) ==
  /\ Renewable(row[i])
  /\ row[i].generation < MaxGeneration
  /\ row' = [row EXCEPT ![i] = Renewed(c, @)]
  /\ Answer(c, Token(i, Renewed(c, row[i]), "acquiring"))

Acquire(c, i) ==
  /\ held[c] = None
  /\ Insert(c, i) \/ Rejoin(c, i) \/ Renew(c, i)
  /\ UNCHANGED <<view, history>>

-----------------------------------------------------------------------------
(* The owner's operations *)

(* Fault: the version is taken to tell the generations apart. *)
OwnsVersion(c, t, r) ==
  /\ r.version = t.version
  /\ r.owner = Owner[c]

(* _lock_owned_row: the row is as the caller's authority has it. *)
Owns(c, t, r) ==
  /\ r.version = t.version
  /\ r.generation = t.generation
  /\ r.owner = Owner[c]

(* mark_write_started.  The lease is not looked at again. *)
Started(r) == [r EXCEPT !.state = "WRITE_STARTED", !.version = @ + 1]

MarkWriteStarted(c, i) ==
  /\ held[c].at = "reserved"
  /\ row[i].state = "RESERVED"
  /\ Owns(c, held[c], row[i])
  /\ row' = [row EXCEPT ![i] = Started(@)]
  /\ Answer(c, [held[c] EXCEPT !.at = "starting"])
  /\ starter' = [starter EXCEPT ![i] = c]
  /\ author' = [author EXCEPT ![i] = None]
  /\ starts' = [starts EXCEPT ![i] = @ + 1]
  /\ UNCHANGED <<view, verdicts>>

RecordSafeFailure(c, i) ==
  /\ held[c].at = "reserved"
  /\ row[i].state = "RESERVED"
  /\ Owns(c, held[c], row[i])
  /\ row' = [row EXCEPT ![i] = [Moved(@, "FAILED_SAFE") EXCEPT !.owner = None]]
  /\ Answer(c, None)
  /\ UNCHANGED <<view, history>>

(* record_success, record_ambiguous *)
RecordOutcome(c, i) ==
  /\ held[c].at = "started"
  /\ row[i].state = "WRITE_STARTED"
  /\ Owns(c, held[c], row[i])
  /\ \E s \in {"SUCCEEDED", "AMBIGUOUS"} : row' = [row EXCEPT ![i] = Moved(@, s)]
  /\ Answer(c, None)
  /\ author' = [author EXCEPT ![i] = c]
  /\ UNCHANGED <<view, starter, starts, verdicts>>

(* db.refresh after db.commit: the authority, or the version of the started
   write, is that of the row as it is by now.                              *)
Refresh(c, i) ==
  /\ \/ /\ held[c].at = "acquiring"
        /\ held' = [held EXCEPT ![c] = Token(i, row[i], "reserved")]
     \/ /\ held[c].at = "starting"
        /\ held' = [held EXCEPT ![c].at = "started", ![c].version = row[i].version]
  /\ UNCHANGED <<row, view, history>>

(* The caller dies, or gives up after an operation was refused. *)
Drop(c) ==
  /\ held[c] # None
  /\ held' = [held EXCEPT ![c] = None]
  /\ UNCHANGED <<row, view, history>>

Lapse(i) ==
  /\ row[i].state = "RESERVED"
  /\ ~row[i].lapsed
  /\ row' = [row EXCEPT ![i].lapsed = TRUE]
  /\ UNCHANGED <<held, view, history>>

-----------------------------------------------------------------------------
(* Judges, who act on a row by the version they have read *)

Look(j, i) ==
  /\ Exists(i)
  /\ view' = [view EXCEPT ![j] = Sight(i, row[i])]
  /\ UNCHANGED <<row, held, history>>

(* surface_stranded_write: the judge asserts that the owner is gone, which
   may be wrong. *)
SurfaceStrandedWrite(j, i) ==
  /\ row[i].state = "WRITE_STARTED"
  /\ row[i].version = view[j].version
  /\ row' = [row EXCEPT ![i] = Moved(@, "AMBIGUOUS")]
  /\ UNCHANGED <<held, view, history>>

ResolveAmbiguous(j, i) ==
  /\ row[i].state = "AMBIGUOUS"
  /\ row[i].version = view[j].version
  /\ \/ /\ row' = [row EXCEPT ![i] = Moved(@, "RESOLVED_SUCCEEDED")]
        /\ UNCHANGED verdicts
     \/ /\ row' = [row EXCEPT ![i] = Moved(@, "RESOLVED_FAILED")]
        /\ verdicts' = [verdicts EXCEPT ![i] = @ + 1]
  /\ UNCHANGED <<held, view, starter, author, starts>>

(* Fault: an unresolved intent may be superseded. *)
SupersedableOpen ==
  {"SUCCEEDED", "RESOLVED_SUCCEEDED", "FAILED_SAFE", "RESOLVED_FAILED", "AMBIGUOUS"}

Supersedable == {"SUCCEEDED", "RESOLVED_SUCCEEDED", "FAILED_SAFE", "RESOLVED_FAILED"}

SupersedeIntent(j, i) ==
  /\ row[i].state \in Supersedable
  /\ row[i].version = view[j].version
  /\ row' = [row EXCEPT ![i] = Moved(@, "SUPERSEDED")]
  /\ UNCHANGED <<held, view, history>>

-----------------------------------------------------------------------------
Work(c) ==
  \/ \E i \in Intents : Acquire(c, i)
  \/ /\ held[c] # None
     /\ LET i == held[c].intent IN
        \/ Refresh(c, i)
        \/ MarkWriteStarted(c, i) \/ RecordSafeFailure(c, i) \/ RecordOutcome(c, i)
  \/ Drop(c)

Rule(j) ==
  \/ \E i \in Intents : Look(j, i)
  \/ /\ view[j] # None
     /\ LET i == view[j].intent IN
        SurfaceStrandedWrite(j, i) \/ ResolveAmbiguous(j, i) \/ SupersedeIntent(j, i)

Next ==
  \/ \E c \in Callers : Work(c)
  \/ \E j \in Judges : Rule(j)
  \/ \E i \in Intents : Lapse(i)

Spec == Init /\ [][Next]_vars

-----------------------------------------------------------------------------
(* Properties *)

(* Rows, authorities and views keep their types; a row that is reserved or
   being written names its owner, which every later ownership check needs
   (cas_update_fields, _lock_owned_row).                                     *)
Rows == [state : States \cup {"none"}, generation : Nat, version : Nat,
         owner : Owners \cup {None}, lapsed : BOOLEAN]

Named(r) == r.state \in {"RESERVED", "WRITE_STARTED"} => r.owner \in Owners

TypeOK ==
  /\ row \in [Intents -> Rows]
  /\ \A i \in Intents : Named(row[i])
  /\ held \in [Callers -> Tokens \cup {None}]
  /\ view \in [Judges -> Sights \cup {None}]
  /\ starter \in [Intents -> Callers \cup {None}]
  /\ author \in [Intents -> Callers \cup {None}]
  /\ starts \in [Intents -> Nat]
  /\ verdicts \in [Intents -> Nat]

(* Every provider write after the first of an intent is paid for by a verdict
   that an earlier one created nothing: neither an expired reservation nor a
   lost answer nor a surfaced write lets anybody write again
   (_acquire_existing).                                                      *)
WritesArePaidFor == \A i \in Intents : starts[i] <= 1 + verdicts[i]

(* A version names one state of one generation for ever: a judge, whose calls
   name no generation, acts on the row it has looked at or is refused, however
   old its reading (cas_update_fields, resolve_ambiguous).                   *)
VersionsNameStates ==
  \A j \in Judges :
    LET t == view[j] IN
    t # None /\ t.version = row[t.intent].version
      => t = Sight(t.intent, row[t.intent])

(* Of the callers that go by one owner name, and of those that were told the
   version of somebody else's write, only one can report how the write under
   way ended (_lock_owned_row, the refresh of mark_write_started).           *)
OneWriter ==
  \A c, d \in Callers :
    /\ held[c] # None /\ held[d] # None
    /\ held[c].intent = held[d].intent
    /\ held[c].at = "started" /\ held[d].at = "started"
    /\ row[held[c].intent].state = "WRITE_STARTED"
    /\ Owns(c, held[c], row[held[c].intent])
    /\ Owns(d, held[d], row[held[d].intent])
    => c = d

PhaseOf(s) ==
  CASE s = "WRITE_STARTED" -> "writing"
    [] s = "AMBIGUOUS" -> "unknown"
    [] s \in {"SUCCEEDED", "RESOLVED_SUCCEEDED"} -> "done"
    [] s = "SUPERSEDED" -> "withdrawn"
    [] OTHER -> "free"

Phase == [i \in Intents |-> PhaseOf(row[i].state)]

Authority == INSTANCE WriteAuthority WITH phase <- Phase, writer <- starter

(* Rows, versions, leases and owner names implement the promise of
   WriteAuthority: in particular only the caller that started a write records
   its outcome, and a superseded intent has no write of unknown outcome.     *)
ImplementsAuthority == Authority!Spec

-----------------------------------------------------------------------------
(* The inductive invariant behind the properties *)

(* No reading is newer than the row. *)
Dated(t) ==
  /\ Exists(t.intent)
  /\ t.version <= row[t.intent].version
  /\ t.version = row[t.intent].version => t = Sight(t.intent, row[t.intent])

(* The write of a generation is its starter's: whoever was told to have
   started one in the generation the row has now is the one that did.      *)
Fenced(c) ==
  LET t == held[c] IN
  /\ Exists(t.intent)
  /\ t.generation <= row[t.intent].generation
  /\ t.at \in {"starting", "started"} /\ t.generation = row[t.intent].generation
       => starter[t.intent] = c /\ row[t.intent].state # "RESERVED"

(* Where the account of writes and verdicts stands in each state. *)
Account(i) ==
  /\ row[i].state \in {"none", "RESERVED", "FAILED_SAFE", "RESOLVED_FAILED"}
       => starts[i] = verdicts[i]
  /\ row[i].state \in {"WRITE_STARTED", "AMBIGUOUS", "SUCCEEDED", "RESOLVED_SUCCEEDED"}
       => starts[i] = 1 + verdicts[i]
  /\ starts[i] <= 1 + verdicts[i]

Inv ==
  /\ TypeOK
  /\ \A c \in Callers : held[c] # None => Fenced(c)
  /\ \A j \in Judges : view[j] # None => Dated(view[j])
  /\ \A i \in Intents : Account(i)

=============================================================================
