------------------------- MODULE WriteRegistryProofs -------------------------
(* Theorems about WriteRegistry, for any number of callers, names, judges,
   intents and generations. *)
EXTENDS WriteRegistry, TLAPS

-----------------------------------------------------------------------------
(* Types *)

LEMMA ReservationType ==
  ASSUME NEW c \in Callers, NEW g \in Nat, NEW v \in Nat
  PROVE  Reservation(c, g, v) \in Rows /\ Named(Reservation(c, g, v))
BY RegistryAssumption DEF Reservation, Rows, Named, States

LEMMA MovedType ==
  ASSUME NEW r \in Rows, NEW s \in States \ {"RESERVED", "WRITE_STARTED"}
  PROVE  /\ Moved(r, s) \in Rows
         /\ Named(Moved(r, s))
         /\ Moved(r, s).state = s
         /\ Moved(r, s).version = r.version + 1
         /\ Moved(r, s).generation = r.generation
<1> DEFINE q == [r EXCEPT !.state = s, !.lapsed = FALSE]
<1>1. /\ q \in Rows /\ q.state = s
      /\ q.version = r.version /\ q.generation = r.generation
  BY DEF Rows
<1>2. Moved(r, s) = [q EXCEPT !.version = r.version + 1]
  BY DEF Moved, Rows
<1> HIDE DEF q
<1> QED
  BY <1>1, <1>2 DEF Rows, Named

LEMMA StartedType ==
  ASSUME NEW r \in Rows, Named(r), r.state = "RESERVED"
  PROVE  /\ Started(r) \in Rows
         /\ Named(Started(r))
         /\ Started(r).state = "WRITE_STARTED"
         /\ Started(r).version = r.version + 1
         /\ Started(r).generation = r.generation
<1> DEFINE q == [r EXCEPT !.state = "WRITE_STARTED"]
<1>1. /\ q \in Rows /\ q.state = "WRITE_STARTED" /\ q.owner = r.owner
      /\ q.version = r.version /\ q.generation = r.generation
  BY DEF Rows, States
<1>2. Started(r) = [q EXCEPT !.version = r.version + 1]
  BY DEF Started, Rows
<1> HIDE DEF q
<1> QED
  BY <1>1, <1>2 DEF Rows, Named

LEMMA SightType ==
  ASSUME NEW i \in Intents, NEW r \in Rows, r.state \in States
  PROVE  Sight(i, r) \in Sights
BY DEF Sight, Sights, Rows

LEMMA TokenType ==
  ASSUME NEW i \in Intents, NEW r \in Rows, NEW at \in Stages
  PROVE  Token(i, r, at) \in Tokens
BY DEF Token, Tokens, Rows

(* One row is replaced and nothing else that TypeOK speaks of. *)
LEMMA RowType ==
  ASSUME TypeOK, NEW i \in Intents, NEW r \in Rows, Named(r),
         row' = [row EXCEPT ![i] = r]
  PROVE  row' \in [Intents -> Rows] /\ \A k \in Intents : Named(row'[k])
BY DEF TypeOK

(* A caller learns the answer or stays with what it had. *)
LEMMA AnswerType ==
  ASSUME TypeOK, NEW c \in Callers, NEW t \in Tokens \cup {None},
         Answer(c, t)
  PROVE  held' \in [Callers -> Tokens \cup {None}]
BY DEF TypeOK, Answer

LEMMA TypeStep == ASSUME TypeOK, [Next]_vars PROVE TypeOK'
<1> USE DEF history
<1>1. CASE UNCHANGED vars
  BY <1>1 DEF TypeOK, vars
<1>2. ASSUME NEW c \in Callers, NEW i \in Intents, NEW r \in Rows, Named(r),
             row' = [row EXCEPT ![i] = r], Answer(c, Token(i, r, "acquiring")),
             UNCHANGED <<view, history>>
      PROVE  TypeOK'
  <2>1. held' \in [Callers -> Tokens \cup {None}]
    BY <1>2, AnswerType, TokenType DEF Stages
  <2>2. row' \in [Intents -> Rows] /\ \A k \in Intents : Named(row'[k])
    BY <1>2, RowType
  <2> QED
    BY <1>2, <2>1, <2>2 DEF TypeOK
<1>3. ASSUME NEW c \in Callers, NEW i \in Intents, Acquire(c, i) PROVE TypeOK'
  <2>1. CASE Insert(c, i)
    BY <2>1, <1>2, <1>3, ReservationType DEF Insert, Acquire
  <2>2. CASE Rejoin(c, i)
    <3>1. held' \in [Callers -> Tokens \cup {None}]
      BY <2>2, AnswerType, TokenType DEF Rejoin, Stages, TypeOK
    <3> QED
      BY <1>3, <2>2, <3>1 DEF Acquire, Rejoin, TypeOK
  <2>3. CASE Renew(c, i)
    <3>1. /\ row[i].generation + 1 \in Nat
          /\ row[i].version + 1 \in Nat
      BY DEF TypeOK, Rows
    <3> QED
      BY <2>3, <3>1, <1>2, <1>3, ReservationType DEF Renew, Renewed, Acquire
  <2> QED
    BY <1>3, <2>1, <2>2, <2>3 DEF Acquire
<1>4. ASSUME NEW c \in Callers, NEW i \in Intents, MarkWriteStarted(c, i), held[c] # None
      PROVE  TypeOK'
  <2>1. Started(row[i]) \in Rows /\ Named(Started(row[i]))
    BY <1>4, StartedType DEF MarkWriteStarted, TypeOK
  <2>2. [held[c] EXCEPT !.at = "starting"] \in Tokens
    BY <1>4 DEF TypeOK, Tokens, Stages
  <2>3. held' \in [Callers -> Tokens \cup {None}]
    BY <1>4, <2>2, AnswerType DEF MarkWriteStarted
  <2>4. row' \in [Intents -> Rows] /\ \A k \in Intents : Named(row'[k])
    BY <1>4, <2>1, RowType DEF MarkWriteStarted
  <2> QED
    BY <1>4, <2>3, <2>4 DEF MarkWriteStarted, TypeOK
<1>5. ASSUME NEW c \in Callers, NEW i \in Intents, RecordSafeFailure(c, i) PROVE TypeOK'
  <2> DEFINE r == [Moved(row[i], "FAILED_SAFE") EXCEPT !.owner = None]
  <2>1. Moved(row[i], "FAILED_SAFE") \in Rows /\ Moved(row[i], "FAILED_SAFE").state = "FAILED_SAFE"
    BY MovedType DEF States, TypeOK
  <2>4. r \in Rows /\ Named(r)
    BY <2>1 DEF Rows, Named
  <2>2. held' \in [Callers -> Tokens \cup {None}]
    BY <1>5, AnswerType DEF RecordSafeFailure
  <2>3. row' \in [Intents -> Rows] /\ \A k \in Intents : Named(row'[k])
    BY <1>5, <2>4, RowType DEF RecordSafeFailure
  <2> QED
    BY <1>5, <2>2, <2>3 DEF RecordSafeFailure, TypeOK
<1>6. ASSUME NEW c \in Callers, NEW i \in Intents, RecordOutcome(c, i) PROVE TypeOK'
  <2>1. held' \in [Callers -> Tokens \cup {None}]
    BY <1>6, AnswerType DEF RecordOutcome
  <2>2. row' \in [Intents -> Rows] /\ \A k \in Intents : Named(row'[k])
    BY <1>6, RowType, MovedType DEF RecordOutcome, States, TypeOK
  <2> QED
    BY <1>6, <2>1, <2>2 DEF RecordOutcome, TypeOK
<1>7. ASSUME NEW c \in Callers, Drop(c) PROVE TypeOK'
  BY <1>7 DEF Drop, TypeOK
<1>8. ASSUME NEW i \in Intents, Lapse(i) PROVE TypeOK'
  BY <1>8, ZenonT(60) DEF Lapse, TypeOK, Rows, Named
<1>9. ASSUME NEW j \in Judges, NEW i \in Intents, Look(j, i) PROVE TypeOK'
  <2>1. Sight(i, row[i]) \in Sights
    BY <1>9, SightType DEF Look, Exists, TypeOK, Rows
  <2> QED
    BY <1>9, <2>1 DEF Look, TypeOK
<1>10. ASSUME NEW j \in Judges, NEW i \in Intents,
              SurfaceStrandedWrite(j, i) \/ ResolveAmbiguous(j, i) \/ SupersedeIntent(j, i)
       PROVE  TypeOK'
  <2>1. row' \in [Intents -> Rows] /\ \A k \in Intents : Named(row'[k])
    BY <1>10, RowType, MovedType
    DEF SurfaceStrandedWrite, ResolveAmbiguous, SupersedeIntent, States, TypeOK
  <2> QED
    BY <1>10, <2>1 DEF SurfaceStrandedWrite, ResolveAmbiguous, SupersedeIntent, TypeOK
<1>11. ASSUME NEW c \in Callers, NEW i \in Intents, Refresh(c, i), held[c] # None
       PROVE  TypeOK'
  <2>1. CASE held' = [held EXCEPT ![c] = Token(i, row[i], "reserved")]
    BY <1>11, <2>1, TokenType DEF Refresh, TypeOK, Stages
  <2>2. CASE held' = [held EXCEPT ![c].at = "started", ![c].version = row[i].version]
    <3> DEFINE t == [held[c] EXCEPT !.at = "started"]
    <3>1. t \in Tokens /\ row[i].version \in Nat
      BY <1>11 DEF TypeOK, Tokens, Stages, Rows
    <3>2. held' = [held EXCEPT ![c] = [t EXCEPT !.version = row[i].version]]
      BY <2>2
    <3> HIDE DEF t
    <3>3. [t EXCEPT !.version = row[i].version] \in Tokens
      BY <3>1 DEF Tokens
    <3>4. held' \in [Callers -> Tokens \cup {None}]
      BY <3>2, <3>3 DEF TypeOK
    <3> QED
      BY <1>11, <3>4 DEF Refresh, TypeOK
  <2> QED
    BY <1>11, <2>1, <2>2 DEF Refresh
<1> QED
  BY <1>1, <1>3, <1>4, <1>5, <1>6, <1>7, <1>8, <1>9, <1>10, <1>11
  DEF Next, Work, Rule, TypeOK, Sights, Tokens

-----------------------------------------------------------------------------
(* What a step can do to a row and to what is known of it *)

(* A row keeps what its readers know of it or gets a higher version; within
   a generation the write and its starter stay.                            *)
Onward(i) ==
  Exists(i) =>
    /\ Exists(i)'
    /\ Sight(i, row[i])' = Sight(i, row[i]) \/ row'[i].version > row[i].version
    /\ row'[i].generation >= row[i].generation
    /\ row'[i].generation = row[i].generation /\ row[i].state # "RESERVED"
         => row'[i].state # "RESERVED" /\ starter'[i] = starter[i]

(* A caller gets an authority of the generation of the row, and a start that
   is its own.                                                              *)
Learns(c) ==
  \/ held'[c] \in {held[c], None}
  \/ \E i \in Intents :
       /\ Exists(i)'
       /\ held'[c].intent = i
       /\ held'[c].generation = row'[i].generation
       /\ held'[c].at \in {"starting", "started"}
            => starter'[i] = c /\ row'[i].state # "RESERVED"
  \/ /\ UNCHANGED <<row, starter>>
     /\ held[c] # None
     /\ held'[c].intent = held[c].intent
     /\ held'[c].generation = held[c].generation
     /\ held[c].at = "starting"

Sees(j) ==
  \/ view'[j] = view[j]
  \/ \E i \in Intents : Exists(i)' /\ view'[j] = Sight(i, row[i])'

LEMMA Steps ==
  ASSUME Inv, [Next]_vars
  PROVE  /\ \A i \in Intents : Onward(i)
         /\ \A c \in Callers : Learns(c)
         /\ \A j \in Judges : Sees(j)
<1> DEFINE Goal == /\ \A i \in Intents : Onward(i)
                   /\ \A c \in Callers : Learns(c)
                   /\ \A j \in Judges : Sees(j)
<1> TypeOK
  BY DEF Inv
<1>0. ASSUME NEW i \in Intents
      PROVE  /\ row[i] \in Rows /\ Named(row[i])
             /\ row[i].version \in Nat /\ row[i].generation \in Nat
  BY DEF TypeOK, Rows
<1>1. CASE UNCHANGED vars
  BY <1>0, <1>1 DEF vars, history, Onward, Learns, Sees, Exists
(* A row that takes a step within its generation. *)
<1>2. ASSUME NEW i \in Intents, NEW r \in Rows, row' = [row EXCEPT ![i] = r],
             r.state # "none", r.version > row[i].version,
             \/ r.generation > row[i].generation
             \/ r.generation = row[i].generation /\ r.state # "RESERVED",
             \A k \in Intents : k # i \/ row[i].state # "RESERVED" => starter'[k] = starter[k]
      PROVE  \A k \in Intents : Onward(k)
  <2>1. row'[i] = r /\ \A k \in Intents \ {i} : row'[k] = row[k]
    BY <1>2 DEF TypeOK
  <2>2. r.generation \in Nat
    BY DEF Rows
  <2> QED
    BY <1>0, <1>2, <2>1, <2>2 DEF Onward, Exists
<1>3. ASSUME NEW c \in Callers, NEW i \in Intents, NEW r \in Rows, r.state = "RESERVED",
             row' = [row EXCEPT ![i] = r], Answer(c, Token(i, r, "acquiring"))
      PROVE  \A d \in Callers : Learns(d)
  <2>1. row'[i] = r
    BY <1>3 DEF TypeOK
  <2> QED
    BY <1>3, <2>1 DEF Answer, Token, Learns, Exists, TypeOK
<1>4. ASSUME NEW c \in Callers, NEW i \in Intents, Acquire(c, i) PROVE Goal
  <2>0. UNCHANGED <<view, starter>>
    BY <1>4 DEF Acquire, history
  <2>1. CASE Insert(c, i)
    <3>1. \A d \in Callers : Learns(d)
      BY <1>3, <2>1, ReservationType DEF Insert, Reservation
    <3>2. \A k \in Intents : Onward(k)
      BY <1>0, <2>0, <2>1 DEF Insert, Onward, Exists, TypeOK
    <3> QED
      BY <2>0, <3>1, <3>2 DEF Sees
  <2>2. CASE Rejoin(c, i)
    BY <1>0, <2>0, <2>2 DEF Rejoin, Answer, Token, Onward, Learns, Sees, Exists, TypeOK
  <2>3. CASE Renew(c, i)
    <3> DEFINE r == Renewed(c, row[i])
    <3>1. /\ r \in Rows /\ r.state = "RESERVED"
          /\ r.version > row[i].version /\ r.generation > row[i].generation
      BY <1>0, ReservationType DEF Renewed, Reservation
    <3> HIDE DEF r
    <3>2. row' = [row EXCEPT ![i] = r] /\ Answer(c, Token(i, r, "acquiring"))
      BY <2>3 DEF Renew, r
    <3>3. \A d \in Callers : Learns(d)
      BY <1>3, <3>1, <3>2
    <3>4. \A k \in Intents : Onward(k)
      BY <1>2, <2>0, <3>1, <3>2
    <3> QED
      BY <2>0, <3>3, <3>4 DEF Sees
  <2> QED
    BY <1>4, <2>1, <2>2, <2>3 DEF Acquire
<1>5. ASSUME NEW c \in Callers, NEW i \in Intents, MarkWriteStarted(c, i),
             held[c] # None, held[c].intent = i
      PROVE  Goal
  <2> DEFINE r == Started(row[i])
  <2>1. /\ r \in Rows /\ r.state = "WRITE_STARTED" /\ r.version > row[i].version
        /\ r.generation = row[i].generation
    BY <1>0, <1>5, StartedType DEF MarkWriteStarted
  <2> HIDE DEF r
  <2>2. row' = [row EXCEPT ![i] = r] /\ row'[i] = r
    BY <1>5 DEF MarkWriteStarted, r, TypeOK
  <2>3. starter'[i] = c /\ \A k \in Intents \ {i} : starter'[k] = starter[k]
    BY <1>5 DEF MarkWriteStarted, TypeOK
  <2>4. \A k \in Intents : Onward(k)
    BY <1>2, <1>5, <2>1, <2>2, <2>3, ZenonT(60) DEF MarkWriteStarted
  <2>5. Learns(c)
    <3>1. held[c] \in Tokens /\ held[c].generation = row[i].generation
      BY <1>5 DEF MarkWriteStarted, Owns, TypeOK
    <3>2. held'[c] \in {held[c], [held[c] EXCEPT !.at = "starting"]}
      BY <1>5 DEF MarkWriteStarted, Answer, TypeOK
    <3> QED
      BY <1>5, <2>1, <2>2, <2>3, <3>1, <3>2 DEF Learns, Exists, Tokens
  <2>6. \A d \in Callers \ {c} : held'[d] = held[d]
    BY <1>5 DEF MarkWriteStarted, Answer, TypeOK
  <2>7. \A j \in Judges : Sees(j)
    BY <1>5 DEF MarkWriteStarted, Sees
  <2> QED
    BY <2>4, <2>5, <2>6, <2>7 DEF Learns
(* Every other step of a row, by its owner or a judge. *)
<1>6. ASSUME NEW i \in Intents, NEW s \in States \ {"RESERVED", "WRITE_STARTED"},
             \/ row' = [row EXCEPT ![i] = Moved(@, s)]
             \/ row' = [row EXCEPT ![i] = [Moved(@, s) EXCEPT !.owner = None]],
             \A c \in Callers : held'[c] \in {held[c], None},
             UNCHANGED <<view, starter>>
      PROVE  Goal
  <2>1. /\ Moved(row[i], s) \in Rows
        /\ Moved(row[i], s).state = s
        /\ Moved(row[i], s).version > row[i].version
        /\ Moved(row[i], s).generation = row[i].generation
    BY <1>0, MovedType
  <2>2. PICK r \in Rows : /\ row' = [row EXCEPT ![i] = r]
                          /\ r.state = s
                          /\ r.version > row[i].version
                          /\ r.generation = row[i].generation
    BY <1>6, <2>1 DEF Rows
  <2>3. \A k \in Intents : Onward(k)
    BY <1>2, <1>6, <2>2 DEF States
  <2> QED
    BY <1>6, <2>3 DEF Learns, Sees
<1>7. ASSUME NEW c \in Callers, NEW i \in Intents,
             RecordSafeFailure(c, i) \/ RecordOutcome(c, i)
      PROVE  Goal
  <2>1. \A d \in Callers : held'[d] \in {held[d], None}
    BY <1>7 DEF RecordSafeFailure, RecordOutcome, Answer, TypeOK
  <2> QED
    BY <1>6, <1>7, <2>1 DEF RecordSafeFailure, RecordOutcome, history, States
<1>8. ASSUME NEW c \in Callers, NEW i \in Intents, Refresh(c, i),
             held[c] # None, held[c].intent = i
      PROVE  Goal
  <2>1. UNCHANGED <<row, view, starter>>
    BY <1>8 DEF Refresh, history
  <2>2. Learns(c)
    <3>1. held[c] \in Tokens /\ Exists(i)
      BY <1>8 DEF Inv, TypeOK, Fenced
    <3>2. CASE held[c].at = "acquiring" /\ held' = [held EXCEPT ![c] = Token(i, row[i], "reserved")]
      BY <1>8, <2>1, <3>1, <3>2 DEF Learns, Token, TypeOK, Exists
    <3>3. CASE /\ held[c].at = "starting"
               /\ held' = [held EXCEPT ![c].at = "started", ![c].version = row[i].version]
      <4>1. /\ held'[c].intent = held[c].intent
            /\ held'[c].generation = held[c].generation
        BY <3>1, <3>3 DEF TypeOK, Tokens
      <4> QED
        BY <1>8, <2>1, <3>3, <4>1 DEF Learns
    <3> QED
      BY <1>8, <3>2, <3>3 DEF Refresh
  <2>3. \A d \in Callers \ {c} : held'[d] = held[d]
    BY <1>8 DEF Refresh, TypeOK
  <2> QED
    BY <1>0, <2>1, <2>2, <2>3 DEF Onward, Learns, Sees, Exists
<1>9. ASSUME NEW c \in Callers, Drop(c) PROVE Goal
  BY <1>0, <1>9 DEF Drop, history, Onward, Learns, Sees, Exists, TypeOK
<1>10. ASSUME NEW i \in Intents, Lapse(i) PROVE Goal
  <2>1. /\ Sight(i, row[i])' = Sight(i, row[i])
        /\ row'[i].state = row[i].state /\ row'[i].generation = row[i].generation
        /\ \A k \in Intents \ {i} : row'[k] = row[k]
    BY <1>0, <1>10 DEF Lapse, Sight, TypeOK, Rows
  <2>2. starter' = starter
    BY <1>10 DEF Lapse, history
  <2>3. Onward(i)
    BY <1>0, <2>1, <2>2 DEF Onward, Exists
  <2>4. \A k \in Intents \ {i} : Onward(k)
    BY <1>0, <2>1, <2>2 DEF Onward, Exists
  <2> QED
    BY <1>10, <2>3, <2>4 DEF Lapse, Learns, Sees, history
<1>11. ASSUME NEW j \in Judges, NEW i \in Intents, Look(j, i) PROVE Goal
  BY <1>0, <1>11 DEF Look, history, Onward, Learns, Sees, Exists, TypeOK
<1>12. ASSUME NEW j \in Judges, NEW i \in Intents,
              SurfaceStrandedWrite(j, i) \/ ResolveAmbiguous(j, i) \/ SupersedeIntent(j, i)
       PROVE  Goal
  <2>1. \A c \in Callers : held'[c] \in {held[c], None}
    BY <1>12 DEF SurfaceStrandedWrite, ResolveAmbiguous, SupersedeIntent
  <2> QED
    BY <1>6, <1>12, <2>1
    DEF SurfaceStrandedWrite, ResolveAmbiguous, SupersedeIntent, history, States
<1>13. ASSUME NEW c \in Callers, Work(c) PROVE Goal
  BY <1>4, <1>5, <1>7, <1>8, <1>9, <1>13 DEF Work, TypeOK, Tokens
<1>14. ASSUME NEW j \in Judges, Rule(j) PROVE Goal
  BY <1>11, <1>12, <1>14 DEF Rule, TypeOK, Sights
<1> QED
  BY <1>1, <1>10, <1>13, <1>14 DEF Next

-----------------------------------------------------------------------------
(* The inductive invariant *)

(* What is known of a row stays dated, and stays so for a new reading. *)
LEMMA DatedStays ==
  ASSUME TypeOK, TypeOK', NEW t \in Sights, Dated(t), Onward(t.intent)
  PROVE  Dated(t)'
<1>1. t.intent \in Intents /\ t.version \in Nat
  BY DEF Sights
<1>2. row[t.intent].version \in Nat /\ row'[t.intent].version \in Nat
  BY <1>1 DEF TypeOK, Rows
<1>3. CASE row'[t.intent].version > row[t.intent].version
  BY <1>1, <1>2, <1>3 DEF Dated, Onward
<1>4. CASE Sight(t.intent, row[t.intent])' = Sight(t.intent, row[t.intent])
  <2>1. row'[t.intent].version = row[t.intent].version
    BY <1>4 DEF Sight
  <2> QED
    BY <1>4, <2>1 DEF Dated, Onward
<1> QED
  BY <1>3, <1>4 DEF Dated, Onward

LEMMA DatedAnew ==
  ASSUME TypeOK', NEW i \in Intents, Exists(i)', NEW t, t = Sight(i, row[i])'
  PROVE  Dated(t)'
<1>1. row'[i].version \in Nat
  BY DEF TypeOK, Rows
<1> QED
  BY <1>1 DEF Dated, Sight

LEMMA FencedStays ==
  ASSUME TypeOK, TypeOK', NEW c \in Callers, held[c] # None, Fenced(c),
         Onward(held[c].intent),
         \/ held'[c] = held[c]
         \/ /\ held'[c].intent = held[c].intent
            /\ held'[c].generation = held[c].generation
            /\ held[c].at = "starting"
  PROVE  Fenced(c)'
<1> DEFINE i == held[c].intent
<1>1. i \in Intents /\ held[c].generation \in Nat
  BY DEF TypeOK, Tokens
<1>2. row[i].generation \in Nat /\ row'[i].generation \in Nat
  BY <1>1 DEF TypeOK, Rows
<1>3. /\ held'[c].intent = i
      /\ held'[c].generation = held[c].generation
      /\ held'[c].at \in {"starting", "started"} => held[c].at \in {"starting", "started"}
  OBVIOUS
<1>4. Exists(i)' /\ held[c].generation <= row'[i].generation
  BY <1>1, <1>2 DEF Fenced, Onward
<1>5. ASSUME held[c].at \in {"starting", "started"}, held[c].generation = row'[i].generation
      PROVE  starter'[i] = c /\ row'[i].state # "RESERVED"
  <2>1. row[i].generation = held[c].generation
    BY <1>1, <1>2, <1>5 DEF Fenced, Onward
  <2> QED
    BY <1>5, <2>1 DEF Fenced, Onward
<1> QED
  BY <1>3, <1>4, <1>5 DEF Fenced, Exists

LEMMA KnownStep ==
  ASSUME Inv, TypeOK', [Next]_vars
  PROVE  /\ \A c \in Callers : (held[c] # None => Fenced(c))'
         /\ \A j \in Judges : (view[j] # None => Dated(view[j]))'
<1>1. /\ \A i \in Intents : Onward(i)
      /\ \A c \in Callers : Learns(c)
      /\ \A j \in Judges : Sees(j)
  BY Steps
<1>2. ASSUME NEW c \in Callers, held'[c] # None
      PROVE  Fenced(c)'
  <2>1. CASE held[c] # None /\ held'[c] = held[c]
    <3>1. Fenced(c) /\ TypeOK /\ held[c].intent \in Intents
      BY <2>1 DEF Inv, TypeOK, Tokens
    <3> QED
      BY <1>1, <2>1, <3>1, FencedStays
  <2>2. CASE \E i \in Intents :
               /\ Exists(i)'
               /\ held'[c].intent = i
               /\ held'[c].generation = row'[i].generation
               /\ held'[c].at \in {"starting", "started"}
                    => starter'[i] = c /\ row'[i].state # "RESERVED"
    <3>1. \A i \in Intents : row'[i].generation \in Nat
      BY DEF TypeOK, Rows
    <3> QED
      BY <2>2, <3>1 DEF Fenced, Exists
  <2>3. CASE /\ held[c] # None
             /\ held'[c].intent = held[c].intent
             /\ held'[c].generation = held[c].generation
             /\ held[c].at = "starting"
    <3>1. Fenced(c) /\ TypeOK /\ held[c].intent \in Intents
      BY <2>3 DEF Inv, TypeOK, Tokens
    <3> QED
      BY <1>1, <2>3, <3>1, FencedStays
  <2> QED
    BY <1>1, <1>2, <2>1, <2>2, <2>3 DEF Learns
<1>3. ASSUME NEW j \in Judges, view'[j] # None
      PROVE  Dated(view[j])'
  <2>1. CASE view'[j] = view[j]
    <3>1. view[j] \in Sights /\ Dated(view[j]) /\ view[j].intent \in Intents
      BY <1>3, <2>1 DEF Inv, TypeOK, Sights
    <3>2. PICK t \in Sights : t = view[j]
      BY <3>1
    <3>3. Dated(t) /\ Onward(t.intent) /\ TypeOK
      BY <1>1, <3>1, <3>2 DEF Inv
    <3>4. Dated(t)'
      BY <3>3, DatedStays
    <3> QED
      BY <2>1, <3>2, <3>4 DEF Dated
  <2>2. CASE \E i \in Intents : Exists(i)' /\ view'[j] = Sight(i, row[i])'
    BY <2>2, DatedAnew
  <2> QED
    BY <1>1, <2>1, <2>2 DEF Sees
<1> QED
  BY <1>2, <1>3

LEMMA AccountStep ==
  ASSUME Inv, [Next]_vars
  PROVE  \A i \in Intents : Account(i)'
<1>0. ASSUME NEW i \in Intents
      PROVE  /\ row[i] \in Rows /\ Named(row[i])
             /\ starts[i] \in Nat /\ verdicts[i] \in Nat
             /\ Account(i)
  BY DEF Inv, TypeOK
(* A step from a state of one side of the account to one of the same side. *)
<1>1. ASSUME NEW i \in Intents, NEW r, row' = [row EXCEPT ![i] = r],
             UNCHANGED <<starts, verdicts>>,
             \/ /\ row[i].state \in {"none", "RESERVED", "FAILED_SAFE", "RESOLVED_FAILED"}
                /\ r.state \in {"RESERVED", "FAILED_SAFE", "SUPERSEDED"}
             \/ /\ row[i].state \in {"WRITE_STARTED", "AMBIGUOUS", "SUCCEEDED",
                                     "RESOLVED_SUCCEEDED"}
                /\ r.state \in {"AMBIGUOUS", "SUCCEEDED", "RESOLVED_SUCCEEDED", "SUPERSEDED"}
      PROVE  \A k \in Intents : Account(k)'
  <2>1. row'[i] = r /\ \A k \in Intents \ {i} : row'[k] = row[k]
    BY <1>1 DEF Inv, TypeOK
  <2> QED
    BY <1>0, <1>1, <2>1 DEF Account
<1>2. CASE UNCHANGED <<row, history>>
  BY <1>0, <1>2 DEF Account, history
<1>3. ASSUME NEW c \in Callers, NEW i \in Intents, Acquire(c, i)
      PROVE  \A k \in Intents : Account(k)'
  <2>1. CASE Insert(c, i)
    BY <1>1, <1>3, <2>1 DEF Acquire, Insert, Reservation, Exists, history
  <2>2. CASE Rejoin(c, i)
    BY <1>2, <1>3, <2>2 DEF Acquire, Rejoin
  <2>3. CASE Renew(c, i)
    BY <1>1, <1>3, <2>3
    DEF Acquire, Renew, Renewable, Renewed, Reservation, history
  <2> QED
    BY <1>3, <2>1, <2>2, <2>3 DEF Acquire
<1>4. ASSUME NEW c \in Callers, NEW i \in Intents, MarkWriteStarted(c, i)
      PROVE  \A k \in Intents : Account(k)'
  <2>1. /\ row'[i] = Started(row[i])
        /\ starts'[i] = starts[i] + 1
        /\ \A k \in Intents \ {i} : row'[k] = row[k] /\ starts'[k] = starts[k]
        /\ verdicts' = verdicts
    BY <1>4 DEF MarkWriteStarted, Inv, TypeOK
  <2>2. Started(row[i]).state = "WRITE_STARTED"
    BY <1>0, <1>4, StartedType DEF MarkWriteStarted
  <2> QED
    BY <1>0, <1>4, <2>1, <2>2 DEF MarkWriteStarted, Account
<1>5. ASSUME NEW c \in Callers, NEW i \in Intents, RecordSafeFailure(c, i)
      PROVE  \A k \in Intents : Account(k)'
  <2>1. [Moved(row[i], "FAILED_SAFE") EXCEPT !.owner = None].state = "FAILED_SAFE"
    BY <1>0, MovedType DEF Rows, States
  <2> QED
    BY <1>1, <1>5, <2>1 DEF RecordSafeFailure, history
<1>6. ASSUME NEW c \in Callers, NEW i \in Intents, RecordOutcome(c, i)
      PROVE  \A k \in Intents : Account(k)'
  <2>1. PICK s \in {"SUCCEEDED", "AMBIGUOUS"} : row' = [row EXCEPT ![i] = Moved(@, s)]
    BY <1>6 DEF RecordOutcome
  <2>2. Moved(row[i], s).state = s
    BY <1>0, MovedType DEF States
  <2> QED
    BY <1>1, <1>6, <2>1, <2>2 DEF RecordOutcome
<1>7. ASSUME NEW i \in Intents, Lapse(i)
      PROVE  \A k \in Intents : Account(k)'
  BY <1>0, <1>1, <1>7 DEF Lapse, history, Rows
<1>8. ASSUME NEW j \in Judges, NEW i \in Intents, SurfaceStrandedWrite(j, i)
      PROVE  \A k \in Intents : Account(k)'
  <2>1. Moved(row[i], "AMBIGUOUS").state = "AMBIGUOUS"
    BY <1>0, MovedType DEF States
  <2> QED
    BY <1>1, <1>8, <2>1 DEF SurfaceStrandedWrite, history
<1>9. ASSUME NEW j \in Judges, NEW i \in Intents, ResolveAmbiguous(j, i)
      PROVE  \A k \in Intents : Account(k)'
  <2>1. CASE row' = [row EXCEPT ![i] = Moved(@, "RESOLVED_SUCCEEDED")] /\ UNCHANGED verdicts
    <3>1. Moved(row[i], "RESOLVED_SUCCEEDED").state = "RESOLVED_SUCCEEDED"
      BY <1>0, MovedType DEF States
    <3> QED
      BY <1>1, <1>9, <2>1, <3>1 DEF ResolveAmbiguous
  <2>2. CASE /\ row' = [row EXCEPT ![i] = Moved(@, "RESOLVED_FAILED")]
             /\ verdicts' = [verdicts EXCEPT ![i] = @ + 1]
    <3>1. /\ row'[i] = Moved(row[i], "RESOLVED_FAILED")
          /\ verdicts'[i] = verdicts[i] + 1
          /\ \A k \in Intents \ {i} : row'[k] = row[k] /\ verdicts'[k] = verdicts[k]
          /\ starts' = starts
      BY <1>9, <2>2 DEF ResolveAmbiguous, Inv, TypeOK
    <3>2. Moved(row[i], "RESOLVED_FAILED").state = "RESOLVED_FAILED"
      BY <1>0, MovedType DEF States
    <3> QED
      BY <1>0, <1>9, <3>1, <3>2 DEF ResolveAmbiguous, Account
  <2> QED
    BY <1>9, <2>1, <2>2 DEF ResolveAmbiguous
<1>10. ASSUME NEW j \in Judges, NEW i \in Intents, SupersedeIntent(j, i)
       PROVE  \A k \in Intents : Account(k)'
  BY <1>0, <1>1, <1>10, MovedType, ZenonT(60) DEF SupersedeIntent, Supersedable, history, States
<1>11. ASSUME NEW c \in Callers, Drop(c) PROVE UNCHANGED <<row, history>>
  BY <1>11 DEF Drop
<1>12. ASSUME NEW j \in Judges, NEW i \in Intents, Look(j, i) PROVE UNCHANGED <<row, history>>
  BY <1>12 DEF Look
<1>13. ASSUME NEW c \in Callers, NEW i \in Intents, Refresh(c, i)
       PROVE  UNCHANGED <<row, history>>
  BY <1>13 DEF Refresh
<1>14. CASE UNCHANGED vars
  BY <1>2, <1>14 DEF vars
<1> QED
  BY <1>2, <1>3, <1>4, <1>5, <1>6, <1>7, <1>8, <1>9, <1>10, <1>11, <1>12, <1>13, <1>14
  DEF Next, Work, Rule, Inv, TypeOK, Tokens, Sights

(* The invariant holds in every reachable state. *)
THEOREM RegistryInductive == Spec => []Inv
<1>1. Init => Inv
  BY RegistryAssumption
  DEF Init, Inv, TypeOK, NoRow, Rows, Named, Account
<1>2. Inv /\ [Next]_vars => Inv'
  BY TypeStep, KnownStep, AccountStep DEF Inv
<1> QED
  BY <1>1, <1>2, PTL DEF Spec

(* Rows, authorities and views keep their types. *)
THEOREM RegistryTypeCorrect == Spec => []TypeOK
BY RegistryInductive, PTL DEF Inv

(* For any number of callers and names, every write after the first of an
   intent is paid for by a verdict on an earlier one.                       *)
THEOREM WritesPaid == Spec => []WritesArePaidFor
<1>1. Inv => WritesArePaidFor
  BY DEF Inv, Account, WritesArePaidFor
<1> QED
  BY RegistryInductive, <1>1, PTL

(* A judge that knows the version of a row knows the row. *)
THEOREM VersionsFence == Spec => []VersionsNameStates
<1>1. Inv => VersionsNameStates
  BY DEF Inv, Dated, VersionsNameStates
<1> QED
  BY RegistryInductive, <1>1, PTL

(* Whoever was told of a start and passes the ownership test of a write under
   way is its starter.                                                      *)
LEMMA OwnerStarted ==
  ASSUME Inv, NEW c \in Callers, held[c] # None, held[c].at = "started",
         Owns(c, held[c], row[held[c].intent])
  PROVE  starter[held[c].intent] = c
BY DEF Inv, Fenced, Owns

(* At most one caller can speak for a started write. *)
THEOREM WriterIsOne == Spec => []OneWriter
<1>1. Inv => OneWriter
  BY OwnerStarted DEF OneWriter
<1> QED
  BY RegistryInductive, <1>1, PTL

-----------------------------------------------------------------------------
(* The refinement of WriteAuthority *)

LEMMA PhaseChange ==
  ASSUME TypeOK, NEW i \in Intents, NEW r, row' = [row EXCEPT ![i] = r]
  PROVE  Phase' = [Phase EXCEPT ![i] = PhaseOf(r.state)]
BY DEF Phase, TypeOK

LEMMA PhaseStays ==
  ASSUME TypeOK, NEW i \in Intents, NEW r, row' = [row EXCEPT ![i] = r],
         PhaseOf(r.state) = PhaseOf(row[i].state)
  PROVE  Phase' = Phase
BY DEF Phase, TypeOK

LEMMA AuthorityStep ==
  ASSUME Inv, [Next]_vars
  PROVE  [Authority!Next]_(Authority!vars)
<1> USE DEF Authority!vars
<1>0. /\ TypeOK
      /\ \A i \in Intents : row[i] \in Rows /\ Named(row[i]) /\ Phase[i] = PhaseOf(row[i].state)
  BY DEF Inv, TypeOK, Phase
<1>1. CASE UNCHANGED <<row, starter, author>>
  BY <1>1 DEF Phase
<1>2. ASSUME NEW c \in Callers, NEW i \in Intents, Acquire(c, i)
      PROVE  UNCHANGED <<Phase, starter, author>>
  <2>1. CASE Insert(c, i)
    BY <1>0, <1>2, <2>1, PhaseStays
    DEF Acquire, Insert, Exists, Reservation, PhaseOf, history
  <2>2. CASE Rejoin(c, i)
    BY <1>2, <2>2 DEF Acquire, Rejoin, Phase, history
  <2>3. CASE Renew(c, i)
    BY <1>0, <1>2, <2>3, PhaseStays
    DEF Acquire, Renew, Renewable, Renewed, Reservation, PhaseOf, history
  <2> QED
    BY <1>2, <2>1, <2>2, <2>3 DEF Acquire
<1>3. ASSUME NEW c \in Callers, NEW i \in Intents, MarkWriteStarted(c, i)
      PROVE  Authority!Begin(i)
  <2>1. Started(row[i]).state = "WRITE_STARTED"
    BY <1>0, <1>3, StartedType DEF MarkWriteStarted
  <2>2. Phase' = [Phase EXCEPT ![i] = "writing"]
    BY <1>0, <1>3, <2>1, PhaseChange DEF MarkWriteStarted, PhaseOf
  <2> QED
    BY <1>0, <1>3, <2>2 DEF MarkWriteStarted, PhaseOf, Authority!Begin
<1>4. ASSUME NEW c \in Callers, NEW i \in Intents, RecordSafeFailure(c, i)
      PROVE  UNCHANGED <<Phase, starter, author>>
  <2>1. [Moved(row[i], "FAILED_SAFE") EXCEPT !.owner = None].state = "FAILED_SAFE"
    BY <1>0, MovedType DEF Rows, States
  <2> QED
    BY <1>0, <1>4, <2>1, PhaseStays DEF RecordSafeFailure, PhaseOf, history
<1>5. ASSUME NEW c \in Callers, held[c] # None, RecordOutcome(c, held[c].intent)
      PROVE  Authority!Report(held[c].intent)
  <2> DEFINE i == held[c].intent
  <2>1. i \in Intents
    BY <1>0, <1>5 DEF TypeOK, Tokens
  <2>2. starter[i] = c
    BY <1>5, OwnerStarted DEF RecordOutcome
  <2>3. PICK s \in {"SUCCEEDED", "AMBIGUOUS"} : row' = [row EXCEPT ![i] = Moved(@, s)]
    BY <1>5 DEF RecordOutcome
  <2>4. Moved(row[i], s).state = s
    BY <1>0, <2>1, MovedType DEF States
  <2>5. \E p \in {"done", "unknown"} : Phase' = [Phase EXCEPT ![i] = p]
    BY <1>0, <2>1, <2>3, <2>4, PhaseChange, ZenonT(60) DEF PhaseOf
  <2> QED
    BY <1>0, <1>5, <2>1, <2>2, <2>5 DEF RecordOutcome, PhaseOf, Authority!Report
<1>6. ASSUME NEW i \in Intents, Lapse(i)
      PROVE  UNCHANGED <<Phase, starter, author>>
  BY <1>0, <1>6 DEF Lapse, Phase, history, Rows, TypeOK
<1>7. ASSUME NEW j \in Judges, NEW i \in Intents, SurfaceStrandedWrite(j, i)
      PROVE  Authority!GiveUp(i)
  <2>1. Moved(row[i], "AMBIGUOUS").state = "AMBIGUOUS"
    BY <1>0, MovedType DEF States
  <2>2. Phase' = [Phase EXCEPT ![i] = "unknown"]
    BY <1>0, <1>7, <2>1, PhaseChange DEF SurfaceStrandedWrite, PhaseOf
  <2> QED
    BY <1>0, <1>7, <2>2 DEF SurfaceStrandedWrite, PhaseOf, history, Authority!GiveUp
<1>8. ASSUME NEW j \in Judges, NEW i \in Intents, ResolveAmbiguous(j, i)
      PROVE  Authority!Judge(i)
  <2>1. /\ Moved(row[i], "RESOLVED_SUCCEEDED").state = "RESOLVED_SUCCEEDED"
        /\ Moved(row[i], "RESOLVED_FAILED").state = "RESOLVED_FAILED"
    BY <1>0, MovedType DEF States
  <2>2. \E p \in {"done", "free"} : Phase' = [Phase EXCEPT ![i] = p]
    BY <1>0, <1>8, <2>1, PhaseChange DEF ResolveAmbiguous, PhaseOf
  <2> QED
    BY <1>0, <1>8, <2>2 DEF ResolveAmbiguous, PhaseOf, Authority!Judge
<1>9. ASSUME NEW j \in Judges, NEW i \in Intents, SupersedeIntent(j, i)
      PROVE  Authority!Withdraw(i)
  <2>1. Moved(row[i], "SUPERSEDED").state = "SUPERSEDED"
    BY <1>0, MovedType DEF States
  <2>2. Phase' = [Phase EXCEPT ![i] = "withdrawn"]
    BY <1>0, <1>9, <2>1, PhaseChange, ZenonT(60) DEF SupersedeIntent, PhaseOf
  <2> QED
    BY <1>0, <1>9, <2>2
    DEF SupersedeIntent, Supersedable, PhaseOf, history, Authority!Withdraw
<1>10. ASSUME NEW c \in Callers, Drop(c) PROVE UNCHANGED <<row, starter, author>>
  BY <1>10 DEF Drop, history
<1>11. ASSUME NEW j \in Judges, NEW i \in Intents, Look(j, i)
       PROVE  UNCHANGED <<row, starter, author>>
  BY <1>11 DEF Look, history
<1>12. CASE UNCHANGED vars
  BY <1>1, <1>12 DEF vars, history
<1>13. ASSUME NEW c \in Callers, NEW i \in Intents, Refresh(c, i)
       PROVE  UNCHANGED <<row, starter, author>>
  BY <1>13 DEF Refresh, history
<1>14. ASSUME NEW c \in Callers, Work(c) PROVE [Authority!Next]_(Authority!vars)
  BY <1>0, <1>1, <1>2, <1>3, <1>4, <1>5, <1>10, <1>14, <1>13
  DEF Work, TypeOK, Tokens, Authority!Next
<1>15. ASSUME NEW j \in Judges, Rule(j) PROVE [Authority!Next]_(Authority!vars)
  BY <1>0, <1>1, <1>7, <1>8, <1>9, <1>11, <1>15 DEF Rule, TypeOK, Sights, Authority!Next
<1> QED
  BY <1>6, <1>12, <1>14, <1>15 DEF Next

(* Rows, leases, names and versions implement the promise of WriteAuthority,
   for any number of callers, names, judges, intents and generations.       *)
THEOREM RegistryImplements == Spec => ImplementsAuthority
<1>1. Init => Authority!Init
  BY DEF Init, NoRow, Phase, PhaseOf, Authority!Init
<1>2. Inv /\ [Next]_vars => [Authority!Next]_(Authority!vars)
  BY AuthorityStep
<1> QED
  BY RegistryInductive, <1>1, <1>2, PTL DEF Spec, ImplementsAuthority, Authority!Spec
=============================================================================
