---------------------------- MODULE PublishLedger ----------------------------
(***************************************************************************)
(* What the publish path promises about each attempt on Facebook or        *)
(* Instagram, with no sessions, locks, leases, versions or recovery: an    *)
(* entry is made before anything is posted and never made again; while it  *)
(* is open or under review at most one post comes of it; it is closed only *)
(* by its own run, if no post came or the provider concealed it behind an  *)
(* error, and none ever comes of it afterwards; it is called a success     *)
(* only if a post came; and whatever else happens to it puts it under      *)
(* review.  One commit may move the entries of several attempts.           *)
(***************************************************************************)
CONSTANT Attempts

VARIABLES
  entry,     (* what the database says of the attempt      *)
  posted,    (* the attempts a post came of                *)
  concealed  (* those the provider answered with an error  *)

vars == <<entry, posted, concealed>>

Entries == {"none", "open", "review", "success", "closed"}

Init ==
  /\ entry = [a \in Attempts |-> "none"]
  /\ posted = {}
  /\ concealed = {}

PostStays(a) ==
  /\ a \in posted' <=> a \in posted
  /\ a \in concealed' <=> a \in concealed

Stays(a) == entry'[a] = entry[a] /\ PostStays(a)

Claim(a) ==
  /\ entry[a] = "none"
  /\ entry'[a] = "open"
  /\ PostStays(a)

Post(a) ==
  /\ entry[a] \in {"open", "review"}
  /\ a \notin posted /\ a \in posted'
  /\ entry'[a] = entry[a]

(* Its own run says how it ended, by what the provider answered. *)
Report(a) ==
  /\ entry[a] \in {"open", "review"}
  /\ entry'[a] = IF a \in posted \ concealed THEN "success" ELSE "closed"
  /\ PostStays(a)

(* Somebody else, or its own run without an answer, hands it to an operator. *)
Review(a) ==
  /\ entry[a] # "none"
  /\ entry'[a] = "review"
  /\ PostStays(a)

Next ==
  /\ entry' \in [Attempts -> Entries]
  /\ posted' \subseteq Attempts
  /\ concealed' \subseteq posted'
  /\ \A a \in Attempts : Stays(a) \/ Claim(a) \/ Post(a) \/ Report(a) \/ Review(a)

Spec == Init /\ [][Next]_vars
=============================================================================
