--------------------- MODULE ArtworkReplacementProofs ---------------------
(* Theorems about ArtworkReplacement, for every number of operators,       *)
(* commands, colours and polls.  Where a lease can only run out when its   *)
(* holder is gone (~Overdue), one command at a time may write, and what it *)
(* knows of the product, the listing and the orders at each of its steps   *)
(* makes every property an invariant, whatever fails or crashes.           *)
EXTENDS ArtworkReplacement, LeastElements, TLAPS

USE ConstantsAssumption DEF ConstantsAssumption

-----------------------------------------------------------------------------
(* The inductive invariant *)

Waiting == {"preflight", "begin", "lease"}
Active(p) == p.pc \notin Waiting \cup {"idle"}
ReplaceOnly == {"upload", "deactivate", "recheck", "print", "render", "pregallery",
                "restore", "restored"}
ReconcileOnly == {"inspect", "reactivate", "reverify", "drop", "resume"}
Gallery == {"barrier", "unlink", "delete", "first", "handoff", "fill", "relink", "approve"}
Finish == {"activate", "confirm", "persist"}

(* A command's own variables agree with its step: whether it holds an        *)
(* operation or an attempt, and what it remembers to have changed.           *)
Identified(p) ==
    /\ p.pc = "idle" => p.kind = "none"
    /\ p.pc \in {"preflight", "begin"} => p.kind = "replace" /\ p.op = None /\ p.attempt = None
    /\ p.pc = "lease" => p.kind = "reconcile" /\ p.op # None /\ p.attempt = None
    /\ Active(p) => /\ p.op # None
                    /\ \/ p.kind = "replace" /\ p.op = p.id /\ p.attempt = None
                       \/ p.kind = "reconcile" /\ p.attempt = p.id
    /\ p.pc \in ReplaceOnly => p.kind = "replace"
    /\ p.pc \in ReconcileOnly => p.kind = "reconcile"
    /\ p.kind # "none" => p.id # None
    /\ p.kind = "replace" => p.upload < p.id
Remembers(p) ==
    /\ p.pc \in {"preflight", "begin", "upload"} => ~p.deact /\ ~p.fulfil /\ p.new = 0 /\ ~p.mocks
    /\ p.pc \in {"deactivate", "recheck", "restore", "restored"} => p.deact /\ ~p.fulfil
    /\ p.kind = "replace" /\ p.pc \in {"print", "render", "pregallery"} \cup Gallery \cup Finish
            => p.deact /\ p.fulfil
    /\ p.pc \in {"deactivate", "recheck", "print", "render", "pregallery", "resume"}
                    \cup Gallery \cup Finish
            => p.new # 0
    /\ p.kind # "none" /\ p.new # 0 => p.new # p.upload
    /\ p.safe => p.pc = "record" /\ p.kind = "replace" /\ ~p.fulfil
Sound(p) == p \in Processes /\ Identified(p) /\ Remembers(p)

(* Numbers are drawn once: no two commands share one, and no operation or    *)
(* attempt has that of a command that has not written it yet.                *)
Numbered ==
    /\ \A a \in Operators : proc[a].id <= used /\ proc[a].op <= used
    /\ \A a, b \in Operators : a # b /\ proc[a].kind # "none" => proc[a].id # proc[b].id
    /\ rec.op <= used /\ rec.attempt <= used /\ rec.upload <= used /\ rec.new <= used
    /\ \A a \in Operators : proc[a].pc \in {"preflight", "begin"} =>
            rec.op # proc[a].id /\ \A b \in Operators : proc[b].op # proc[a].id
    /\ \A a \in Operators : proc[a].pc = "lease" => rec.attempt # proc[a].id

(* The checkpoint belongs to the active command, and says what it knows; and *)
(* a command that waits for the lease gets it only while what it read of the *)
(* checkpoint is still true.                                                 *)
Agrees(p) == rec.op = p.op /\ rec.upload = p.upload /\ rec.new = p.new /\ rec.mocks = p.mocks
Holds(p) ==
    /\ Agrees(p) /\ rec.run = "verification_required" /\ rec.attempt = p.attempt /\ ~rec.stale
    /\ rec.status = IF p.kind = "replace" THEN "in_progress" ELSE "reconciling"
MayLease(p) ==
    rec.run = "verification_required" /\ rec.op = p.op =>
        Agrees(p) /\ (rec.status = "in_progress" => rec.stale)

(* What the active command knows of product, listing and orders.             *)
Old(p) == art = p.upload /\ Shows(p.upload)
New(p) == art = p.new /\ sold = {} /\ shop.state = "inactive"
OldPhotos(p) == p.gallery # {} /\ p.gallery \subseteq Photos(p.upload)
KnowsRemote(p) ==
    /\ p.pc \in {"upload", "deactivate"} => Old(p) /\ shop.state = "active"
    /\ p.pc \in {"recheck", "print"} => Old(p) /\ shop.state = "inactive"
    /\ p.pc = "print" => sold = {}
    /\ p.pc \in {"render", "pregallery", "resume", "activate"} \cup Gallery => New(p)
    /\ p.pc \in {"pregallery", "resume"} \cup Gallery => p.mocks
    /\ p.pc \in Finish => art = p.new /\ Shows(p.new)
    /\ p.pc \in {"confirm", "persist"} => shop.state = "active"
    /\ p.pc \in {"restore", "reactivate"} => Old(p)
    /\ p.pc \in {"restored", "reverify", "drop"} => Old(p) /\ shop.state = "active"
    /\ p.safe => Old(p) /\ shop.state = "active"
KnowsGallery(p) ==
    /\ p.pc \in {"resume", "barrier", "unlink", "delete", "first", "handoff"} => OldPhotos(p)
    /\ p.pc = "unlink" => shop.gallery = p.gallery
    /\ p.pc = "delete" => p.todo \subseteq p.gallery \ {Last(p.gallery)}
    /\ p.pc \in {"delete", "first"} => Last(p.gallery) \in shop.gallery
    /\ p.pc = "handoff" => Least(Photos(p.new)) \in shop.gallery
    /\ p.pc \in {"handoff", "fill"} => p.todo \subseteq Photos(p.new)
    /\ p.pc = "relink" => shop.gallery = Photos(p.new)
Knows(p) == KnowsRemote(p) /\ KnowsGallery(p)

(* What holds of the world at any time. *)
World ==
    /\ shop.state = "active" => Shows(art)
    /\ shop.gallery # {}
    /\ rec.run = "verification_required" => rec.op # None /\ (rec.new # 0 => rec.new # rec.upload)

Commanded ==
    /\ \A a \in Operators : Sound(proc[a])
    /\ \A a \in Operators : Active(proc[a]) => Holds(proc[a]) /\ Knows(proc[a])
    /\ \A a \in Operators : proc[a].pc = "lease" => MayLease(proc[a])

ReplacementInv == TypeOK /\ Commanded /\ Numbered /\ World /\ PublishedIsLive /\ SoldAsPrinted

-----------------------------------------------------------------------------
(* Facts about the helpers *)

(* An idle command holds nothing. *)
LEMMA IdleSound == Sound(Idle) /\ ~Active(Idle) /\ Idle.pc = "idle"
  <1>1. Idle \in Processes
    BY DEF Idle, Processes, Steps, None, Artworks
  <1>. QED BY <1>1 DEF Idle, Sound, Identified, Remembers, Active, Waiting, ReplaceOnly,
                       ReconcileOnly, Gallery, Finish

(* Only one command is active. *)
LEMMA Alone ==
    ASSUME ReplacementInv, NEW a \in Operators, NEW b \in Operators,
           Active(proc[a]), Active(proc[b])
    PROVE  a = b
  BY DEF ReplacementInv, Commanded, Numbered, Sound, Identified, Holds, Agrees, None

(* The active command may write a checkpoint, and saving mere progress       *)
(* leaves the record as it is.                                               *)
LEMMA OwnCheckpoint ==
    ASSUME rec \in Records, NEW p, Identified(p), Active(p), Holds(p)
    PROVE  /\ MayCheckpoint(p)
           /\ Progress(p) = rec
  <1>1. MayCheckpoint(p)
    BY DEF Holds, Agrees, MayCheckpoint, Identified, None
  <1>2. Progress(p) = rec
    BY DEF Holds, Agrees, Progress, Saved, Records, Identified, None
  <1>. QED BY <1>1, <1>2

(* A nonempty set of photos has a least and a last photo. *)
LEMMA ChosenPhotos ==
    ASSUME NEW X, NEW S, S \subseteq X \X Colors, S # {}
    PROVE  Least(S) \in S /\ Last(S) \in S
  <1>. DEFINE C == {i[2] : i \in S}
  <1>1. C \subseteq Nat /\ C # {} /\ \A c \in C : c <= NumColors
    <2>1. \A i \in S : i[2] \in 1..NumColors
      BY DEF Colors
    <2>. QED BY <2>1
  <1>2. (\E m \in C : \A n \in C : m <= n) /\ (\E m \in C : \A n \in C : n <= m)
    <2>. HIDE DEF C
    <2>. QED BY <1>1, LeastNatural, GreatestNatural
  <1>3. \E i \in S : \A j \in S : i[2] <= j[2]
    BY <1>2
  <1>4. \E i \in S : \A j \in S : j[2] <= i[2]
    BY <1>2
  <1>. QED BY <1>3, <1>4 DEF Least, Last

(* The photos of an artwork are never none. *)
LEMMA PhotosNonempty ==
    ASSUME NEW x
    PROVE  Photos(x) # {} /\ Least(Photos(x)) \in Photos(x)
  <1>1. <<x, 1>> \in Photos(x)
    BY DEF Photos, Colors
  <1>. QED BY <1>1, ChosenPhotos DEF Photos

(* Photos of two artworks differ. *)
LEMMA PhotosDiffer ==
    ASSUME NEW x, NEW y, x # y
    PROVE  Photos(x) \cap Photos(y) = {}
  BY DEF Photos

(* What the steps of an active command never change. *)
Same(p, q) ==
    /\ q.kind = p.kind /\ q.id = p.id /\ q.op = p.op /\ q.attempt = p.attempt
    /\ q.upload = p.upload

(* A command that raises goes to the except clause that fits what it has     *)
(* done; it remains the active one.                                          *)
LEMMA RaiseSound ==
    ASSUME NEW p, Sound(p), Active(p), p.pc \notin {"silence", "record", "restore", "restored"}
    PROVE  /\ Sound(Raise(p)) /\ Active(Raise(p))
           /\ Same(p, Raise(p)) /\ Raise(p).new = p.new /\ Raise(p).mocks = p.mocks
           /\ Raise(p).pc \in {"silence", "restore", "record"}
           /\ Raise(p).pc = "record" => p.pc = "upload"
           /\ Raise(p).pc # "record" => ~Raise(p).safe
           /\ Raise(p).pc = "restore" => p.deact /\ ~p.fulfil
  <1>. DEFINE q0 == [p EXCEPT !.todo = {}, !.gallery = {}, !.links = {}, !.polls = 0]
  <1>0. p \in Processes /\ Identified(p) /\ Remembers(p)
    BY DEF Sound
  <1>1. ~ ((p.kind = "replace" /\ p.op = None) \/ (p.kind = "reconcile" /\ p.attempt = None))
    BY <1>0 DEF Identified, Active, None
  <1>2. p.pc \in Steps /\ 0 \in 0..(Polls - 1) /\ ~p.safe
    BY <1>0 DEF Processes, Remembers
  <1>3. q0 \in Processes
    BY <1>0, <1>2 DEF Processes
  <1>4. p.kind \in {"replace", "reconcile"}
    BY <1>0 DEF Identified, Active
  <1>5. CASE p.kind = "reconcile" \/ (p.fulfil /\ p.deact)
    <2>. DEFINE q == [q0 EXCEPT !.pc = "silence"]
    <2>1. Raise(p) = q
      BY <1>1, <1>5 DEF Raise
    <2>2. q \in Processes /\ Same(p, q) /\ q.pc = "silence" /\ q.new = p.new /\ q.mocks = p.mocks
                /\ ~q.safe /\ q.deact = p.deact /\ q.fulfil = p.fulfil
      BY <1>0, <1>2, <1>3 DEF Processes, Steps, Same
    <2>. HIDE DEF q
    <2>3. Identified(q) /\ Remembers(q) /\ Active(q)
      BY <2>2, <1>0, <1>4, <1>5 DEF Identified, Remembers, Active, Waiting, ReplaceOnly,
         ReconcileOnly, Gallery, Finish, Same
    <2>. QED BY <2>1, <2>2, <2>3 DEF Sound
  <1>6. CASE ~ (p.kind = "reconcile" \/ (p.fulfil /\ p.deact)) /\ p.deact
    <2>. DEFINE q == [q0 EXCEPT !.pc = "restore"]
    <2>1. Raise(p) = q
      BY <1>1, <1>6 DEF Raise
    <2>2. q \in Processes /\ Same(p, q) /\ q.pc = "restore" /\ q.new = p.new /\ q.mocks = p.mocks
                /\ ~q.safe /\ q.deact = p.deact /\ q.fulfil = p.fulfil
      BY <1>0, <1>2, <1>3 DEF Processes, Steps, Same
    <2>. HIDE DEF q
    <2>3. Identified(q) /\ Remembers(q) /\ Active(q)
      BY <2>2, <1>0, <1>4, <1>6 DEF Identified, Remembers, Active, Waiting, ReplaceOnly,
         ReconcileOnly, Gallery, Finish, Same
    <2>. QED BY <2>1, <2>2, <2>3, <1>6 DEF Sound
  <1>7. CASE ~ (p.kind = "reconcile" \/ (p.fulfil /\ p.deact)) /\ ~p.deact
    <2>. DEFINE q == [q0 EXCEPT !.pc = "record", !.safe = TRUE]
    <2>1. Raise(p) = q
      BY <1>1, <1>7 DEF Raise
    <2>2. q \in Processes /\ Same(p, q) /\ q.pc = "record" /\ q.new = p.new /\ q.mocks = p.mocks
                /\ q.safe /\ q.deact = p.deact /\ q.fulfil = p.fulfil
      BY <1>0, <1>2, <1>3 DEF Processes, Steps, Same
    <2>3. p.pc = "upload"
      BY <1>0, <1>2, <1>4, <1>7 DEF Remembers, Identified, Active, Waiting, Gallery, Finish, Steps,
            ReplaceOnly, ReconcileOnly
    <2>4. ~p.fulfil
      BY <2>3, <1>0 DEF Remembers
    <2>. HIDE DEF q
    <2>5. Identified(q) /\ Remembers(q) /\ Active(q)
      BY <2>2, <2>4, <1>0, <1>4, <1>7 DEF Identified, Remembers, Active, Waiting, ReplaceOnly,
         ReconcileOnly, Gallery, Finish, Same
    <2>. QED BY <2>1, <2>2, <2>3, <2>5 DEF Sound
  <1>. QED BY <1>5, <1>6, <1>7

-----------------------------------------------------------------------------
(* Type correctness, whether or not a lease may run out under its holder *)

(* A command that deletes or uploads photos holds the photos it has read. *)
Chosen(p) == p.pc \in {"unlink", "delete", "first", "handoff"} => p.gallery # {}
TypeInv == TypeOK /\ \A a \in Operators : Chosen(proc[a])

(* The except clauses and a checkpoint keep the types. *)
LEMMA RaiseType ==
    ASSUME NEW p \in Processes
    PROVE  Raise(p) \in Processes /\ Chosen(Raise(p))
  <1>. DEFINE q0 == [p EXCEPT !.todo = {}, !.gallery = {}, !.links = {}, !.polls = 0]
  <1>1. q0 \in Processes
    <2>1. 0 \in 0..(Polls - 1)
      OBVIOUS
    <2>. QED BY <2>1 DEF Processes
  <1>2. \/ Raise(p) = Idle
        \/ Raise(p) = [q0 EXCEPT !.pc = "silence"]
        \/ Raise(p) = [q0 EXCEPT !.pc = "restore"]
        \/ Raise(p) = [q0 EXCEPT !.pc = "record", !.safe = TRUE]
    BY DEF Raise
  <1>3. Idle \in Processes /\ Idle.pc = "idle"
    BY IdleSound DEF Sound
  <1>. HIDE DEF q0
  <1>4. \A s \in {"silence", "restore"} :
            [q0 EXCEPT !.pc = s] \in Processes /\ [q0 EXCEPT !.pc = s].pc = s
    BY <1>1 DEF Processes, Steps
  <1>5. /\ [q0 EXCEPT !.pc = "record", !.safe = TRUE] \in Processes
        /\ [q0 EXCEPT !.pc = "record", !.safe = TRUE].pc = "record"
    BY <1>1 DEF Processes, Steps
  <1>. QED BY <1>2, <1>3, <1>4, <1>5 DEF Chosen

(* What a checkpoint writes is a record. *)
LEMMA SavedType ==
    ASSUME rec \in Records, NEW p \in Processes, NEW status \in Statuses
    PROVE  Saved(p, status) \in Records
  BY DEF Saved, Records, Processes, Statuses

(* The same for a checkpoint of the running replacement. *)
LEMMA ProgressType ==
    ASSUME rec \in Records, NEW p \in Processes
    PROVE  Progress(p) \in Records
  BY SavedType DEF Progress, Statuses

(* A step of one command that goes on to a typed state, or raises. *)
LEMMA MoveType ==
    ASSUME TypeInv, NEW a \in Operators, NEW q \in Processes, Chosen(q),
           Becomes(a, q) \/ Becomes(a, Raise(proc[a])),
           rec' \in Records, art' \in Artworks, shop' \in Listings, sold' = sold,
           edits' = edits, used' \in 0..MaxCommands
    PROVE  TypeInv'
  <1>1. proc[a] \in Processes
    BY DEF TypeInv, TypeOK
  <1>2. PICK r \in Processes : Chosen(r) /\ Becomes(a, r)
    BY <1>1, RaiseType
  <1>3. proc' \in [Operators -> Processes]
    BY <1>2 DEF Becomes, TypeInv, TypeOK
  <1>4. \A b \in Operators : Chosen(proc[b])'
    BY <1>2 DEF Becomes, TypeInv, TypeOK, Chosen
  <1>. QED BY <1>3, <1>4 DEF TypeInv, TypeOK

(* Every step of a command keeps the types. *)
LEMMA CommandType ==
    ASSUME TypeInv, NEW a \in Operators,
           \/ Replacing(a) \/ Photographing(a) \/ Finishing(a) \/ Reconciling(a)
           \/ RemoteFails(a) \/ Crash(a)
    PROVE  TypeInv'
  <1>. DEFINE p == proc[a]
  <1>0. /\ TypeOK /\ p \in Processes /\ Chosen(p) /\ Idle \in Processes /\ Chosen(Idle)
        /\ Raise(p) \in Processes /\ Chosen(Raise(p))
        /\ Progress(p) \in Records /\ p.pc \in Steps /\ 0 \in 0..(Polls - 1)
        /\ Photos(p.new) \subseteq AllPhotos /\ Least(Photos(p.new)) \in AllPhotos
        /\ p.todo \subseteq Artworks \X Colors
    <2>1. TypeOK /\ p \in Processes /\ Chosen(p) /\ Idle \in Processes /\ Chosen(Idle)
      BY IdleSound DEF TypeInv, TypeOK, Sound, Chosen
    <2>2. p.pc \in Steps /\ p.new \in Artworks /\ 0 \in 0..(Polls - 1)
          /\ p.todo \subseteq Artworks \X Colors
      BY <2>1 DEF Processes, AllPhotos
    <2>3. Photos(p.new) \subseteq AllPhotos
      BY <2>2 DEF Photos, AllPhotos
    <2>. QED BY <2>1, <2>2, <2>3, RaiseType, ProgressType, PhotosNonempty DEF TypeOK
  <1>1. CASE Preflight(a)
    <2>. DEFINE q == [Goes(p, "begin") EXCEPT !.snap = edits]
    <2>1. q \in Processes /\ Chosen(q)
      BY <1>0, <1>1 DEF Preflight, At, Goes, Processes, Steps, Chosen, TypeOK
    <2>2. rec \in Records
      BY <1>0 DEF TypeOK
    <2>3. /\ Becomes(a, q) \/ Becomes(a, Raise(p))
          /\ rec' = rec
      BY <1>1 DEF Preflight, Decide, remote
    <2>4. /\ art' \in Artworks /\ shop' \in Listings /\ sold' = sold /\ edits' = edits
          /\ used' \in 0..MaxCommands
      BY <1>0, <1>1 DEF Preflight, Decide, remote, TypeOK
    <2>. HIDE DEF q
    <2>. QED BY <1>0, <2>1, <2>2, <2>3, <2>4, MoveType DEF TypeOK
  <1>2. CASE Upload(a)
    <2>. DEFINE q == [Goes(p, "deactivate") EXCEPT !.new = p.id, !.deact = TRUE]
                saved == [Progress(p) EXCEPT !.new = p.id]
    <2>1. q \in Processes /\ Chosen(q)
      BY <1>0, <1>2 DEF Upload, At, Goes, Processes, Steps, Chosen, Artworks
    <2>2. saved \in Records
      BY <1>0, <1>2 DEF Records, Processes, Artworks
    <2>3. /\ Becomes(a, q) \/ Becomes(a, Raise(p))
          /\ rec' \in {rec, saved}
      BY <1>2 DEF Upload, DecideAndSave, remote
    <2>4. /\ art' \in Artworks /\ shop' \in Listings /\ sold' = sold /\ edits' = edits
          /\ used' \in 0..MaxCommands
      BY <1>0, <1>2 DEF Upload, DecideAndSave, remote, TypeOK
    <2>. HIDE DEF q, saved
    <2>. QED BY <1>0, <2>1, <2>2, <2>3, <2>4, MoveType DEF TypeOK
  <1>3. CASE Deactivate(a)
    <2>. DEFINE q == Goes(p, "recheck")
                saved == Progress(p)
    <2>1. q \in Processes /\ Chosen(q)
      BY <1>0, <1>3 DEF Deactivate, At, Goes, Processes, Steps, Chosen
    <2>2. saved \in Records
      BY <1>0, <1>3 DEF Records, Processes
    <2>3. /\ Becomes(a, q) \/ Becomes(a, Raise(p))
          /\ rec' \in {rec, saved}
      BY <1>3 DEF Deactivate, Write, remote
    <2>4. /\ art' \in Artworks /\ shop' \in Listings /\ sold' = sold /\ edits' = edits
          /\ used' \in 0..MaxCommands
      BY <1>0, <1>3 DEF Deactivate, Write, remote, TypeOK, Listings
    <2>. HIDE DEF q, saved
    <2>. QED BY <1>0, <2>1, <2>2, <2>3, <2>4, MoveType DEF TypeOK
  <1>4. CASE Recheck(a)
    <2>. DEFINE q == [Goes(p, "print") EXCEPT !.fulfil = TRUE]
    <2>1. q \in Processes /\ Chosen(q)
      BY <1>0, <1>4 DEF Recheck, At, Goes, Processes, Steps, Chosen
    <2>2. rec \in Records
      BY <1>0 DEF TypeOK
    <2>3. /\ Becomes(a, q) \/ Becomes(a, Raise(p))
          /\ rec' = rec
      BY <1>4 DEF Recheck, Decide, remote
    <2>4. /\ art' \in Artworks /\ shop' \in Listings /\ sold' = sold /\ edits' = edits
          /\ used' \in 0..MaxCommands
      BY <1>0, <1>4 DEF Recheck, Decide, remote, TypeOK
    <2>. HIDE DEF q
    <2>. QED BY <1>0, <2>1, <2>2, <2>3, <2>4, MoveType DEF TypeOK
  <1>5. CASE Rendered(a)
    <2>. DEFINE q == [Goes(p, "pregallery") EXCEPT !.mocks = TRUE, !.polls = 0]
                saved == [Progress(p) EXCEPT !.mocks = TRUE]
    <2>1. q \in Processes /\ Chosen(q)
      BY <1>0, <1>5 DEF Rendered, At, Goes, Processes, Steps, Chosen
    <2>2. saved \in Records
      BY <1>0, <1>5 DEF Records, Processes
    <2>3. /\ Becomes(a, q) \/ Becomes(a, Raise(p))
          /\ rec' \in {rec, saved}
      BY <1>5 DEF Rendered, DecideAndSave, remote
    <2>4. /\ art' \in Artworks /\ shop' \in Listings /\ sold' = sold /\ edits' = edits
          /\ used' \in 0..MaxCommands
      BY <1>0, <1>5 DEF Rendered, DecideAndSave, remote, TypeOK
    <2>. HIDE DEF q, saved
    <2>. QED BY <1>0, <2>1, <2>2, <2>3, <2>4, MoveType DEF TypeOK
  <1>6. CASE PreGallery(a)
    <2>. DEFINE q == [Goes(p, "barrier") EXCEPT !.gallery = shop.gallery, !.links = shop.links]
    <2>1. q \in Processes /\ Chosen(q)
      BY <1>0, <1>6 DEF PreGallery, At, Goes, Processes, Steps, Chosen, TypeOK, Listings
    <2>2. rec \in Records
      BY <1>0 DEF TypeOK
    <2>3. /\ Becomes(a, q) \/ Becomes(a, Raise(p))
          /\ rec' = rec
      BY <1>6 DEF PreGallery, Decide, remote
    <2>4. /\ art' \in Artworks /\ shop' \in Listings /\ sold' = sold /\ edits' = edits
          /\ used' \in 0..MaxCommands
      BY <1>0, <1>6 DEF PreGallery, Decide, remote, TypeOK
    <2>. HIDE DEF q
    <2>. QED BY <1>0, <2>1, <2>2, <2>3, <2>4, MoveType DEF TypeOK
  <1>7. CASE Unlink(a)
    <2>. DEFINE q == [Goes(p, "delete") EXCEPT !.todo = p.gallery \ {Last(p.gallery)}]
                saved == Progress(p)
    <2>1. q \in Processes /\ Chosen(q)
      BY <1>0, <1>7 DEF Unlink, At, Goes, Processes, Steps, Chosen
    <2>2. saved \in Records
      BY <1>0, <1>7 DEF Records, Processes
    <2>3. /\ Becomes(a, q) \/ Becomes(a, Raise(p))
          /\ rec' \in {rec, saved}
      BY <1>7 DEF Unlink, Write, remote
    <2>4. /\ art' \in Artworks /\ shop' \in Listings /\ sold' = sold /\ edits' = edits
          /\ used' \in 0..MaxCommands
      BY <1>0, <1>7 DEF Unlink, Write, remote, TypeOK, Listings
    <2>. HIDE DEF q, saved
    <2>. QED BY <1>0, <2>1, <2>2, <2>3, <2>4, MoveType DEF TypeOK
  <1>8. CASE DeletePhoto(a)
    <2>. DEFINE q == [p EXCEPT !.todo = @ \ {Least(p.todo)}]
                saved == Progress(p)
    <2>1. q \in Processes /\ Chosen(q)
      BY <1>0, <1>8 DEF DeletePhoto, At, Goes, Processes, Steps, Chosen
    <2>2. saved \in Records
      BY <1>0, <1>8 DEF Records, Processes
    <2>3. /\ Becomes(a, q) \/ Becomes(a, Raise(p))
          /\ rec' \in {rec, saved}
      BY <1>8 DEF DeletePhoto, AnnouncedWrite, Decide, Write, remote
    <2>4. /\ art' \in Artworks /\ shop' \in Listings /\ sold' = sold /\ edits' = edits
          /\ used' \in 0..MaxCommands
      BY <1>0, <1>8 DEF DeletePhoto, AnnouncedWrite, Decide, Write, remote, TypeOK, Listings
    <2>. HIDE DEF q, saved
    <2>. QED BY <1>0, <2>1, <2>2, <2>3, <2>4, MoveType DEF TypeOK
  <1>9. CASE KeepLast(a)
    <2>. DEFINE q == Goes(p, "first")
                saved == [Progress(p) EXCEPT !.retained = Last(p.gallery)[2]]
    <2>0. Last(p.gallery)[2] \in 0..NumColors
      <3>1. Last(p.gallery) \in Artworks \X Colors
        BY <1>0, <1>9, ChosenPhotos DEF KeepLast, At, Chosen, Processes, AllPhotos
      <3>. QED BY <3>1 DEF Colors
    <2>1. q \in Processes /\ Chosen(q)
      BY <1>0, <1>9 DEF KeepLast, At, Goes, Processes, Steps, Chosen
    <2>2. saved \in Records
      BY <1>0, <1>9, <2>0 DEF Records
    <2>3. /\ Becomes(a, q) \/ Becomes(a, Raise(p))
          /\ rec' \in {rec, saved}
      BY <1>9 DEF KeepLast, DecideAndSave, remote
    <2>4. /\ art' \in Artworks /\ shop' \in Listings /\ sold' = sold /\ edits' = edits
          /\ used' \in 0..MaxCommands
      BY <1>0, <1>9 DEF KeepLast, DecideAndSave, remote, TypeOK
    <2>. HIDE DEF q, saved
    <2>. QED BY <1>0, <2>1, <2>2, <2>3, <2>4, MoveType DEF TypeOK
  <1>10. CASE UploadFirst(a)
    <2>. DEFINE q == [Goes(p, "handoff") EXCEPT !.todo = Photos(p.new) \ {Least(Photos(p.new))}]
                saved == Progress(p)
    <2>1. q \in Processes /\ Chosen(q)
      BY <1>0, <1>10 DEF UploadFirst, At, Goes, Processes, Steps, Chosen
    <2>2. saved \in Records
      BY <1>0, <1>10 DEF Records, Processes
    <2>3. /\ Becomes(a, q) \/ Becomes(a, Raise(p))
          /\ rec' \in {rec, saved}
      BY <1>10 DEF UploadFirst, AnnouncedWrite, Decide, Write, remote
    <2>4. /\ art' \in Artworks /\ shop' \in Listings /\ sold' = sold /\ edits' = edits
          /\ used' \in 0..MaxCommands
      BY <1>0, <1>10 DEF UploadFirst, AnnouncedWrite, Decide, Write, remote, TypeOK, Listings, AllPhotos
    <2>. HIDE DEF q, saved
    <2>. QED BY <1>0, <2>1, <2>2, <2>3, <2>4, MoveType DEF TypeOK
  <1>11. CASE HandOff(a)
    <2>. DEFINE q == IF shop.gallery \ {Last(p.gallery)} = {Least(Photos(p.new))}
                     THEN [Goes(p, "fill") EXCEPT !.gallery = {}] ELSE Raise(p)
                saved == [Progress(p) EXCEPT !.retained = None]
    <2>0. /\ [Goes(p, "fill") EXCEPT !.gallery = {}] \in Processes
          /\ Chosen([Goes(p, "fill") EXCEPT !.gallery = {}])
      BY <1>0, ZenonT(30) DEF Goes, Processes, Steps, Chosen
    <2>1. q \in Processes /\ Chosen(q)
      BY <1>0, <2>0, <1>11 DEF HandOff, At, Goes, Processes, Steps, Chosen
    <2>2. saved \in Records
      BY <1>0, <1>11 DEF Records, None
    <2>3. /\ Becomes(a, q) \/ Becomes(a, Raise(p))
          /\ rec' \in {rec, saved}
      BY <1>11 DEF HandOff, AnnouncedWrite, Decide, Write, remote
    <2>4. /\ art' \in Artworks /\ shop' \in Listings /\ sold' = sold /\ edits' = edits
          /\ used' \in 0..MaxCommands
      BY <1>0, <1>11 DEF HandOff, AnnouncedWrite, Decide, Write, remote, TypeOK, Listings
    <2>. HIDE DEF q, saved
    <2>. QED BY <1>0, <2>1, <2>2, <2>3, <2>4, MoveType DEF TypeOK
  <1>12. CASE FillGallery(a)
    <2>. DEFINE q == [p EXCEPT !.todo = @ \ {Least(p.todo)}]
                saved == Progress(p)
    <2>0. Least(p.todo) \in AllPhotos
      BY <1>0, <1>12, ChosenPhotos DEF FillGallery, AllPhotos
    <2>1. q \in Processes /\ Chosen(q)
      BY <1>0, <1>12 DEF FillGallery, At, Goes, Processes, Steps, Chosen
    <2>2. saved \in Records
      BY <1>0, <1>12 DEF Records, Processes
    <2>3. /\ Becomes(a, q) \/ Becomes(a, Raise(p))
          /\ rec' \in {rec, saved}
      BY <1>12 DEF FillGallery, AnnouncedWrite, Decide, Write, remote
    <2>4. /\ art' \in Artworks /\ shop' \in Listings /\ sold' = sold /\ edits' = edits
          /\ used' \in 0..MaxCommands
      BY <1>0, <1>12, <2>0 DEF FillGallery, AnnouncedWrite, Decide, Write, remote, TypeOK, Listings, AllPhotos
    <2>. HIDE DEF q, saved
    <2>. QED BY <1>0, <2>1, <2>2, <2>3, <2>4, MoveType DEF TypeOK
  <1>13. CASE GalleryFilled(a)
    <2>. DEFINE q == Goes(p, "relink")
    <2>1. q \in Processes /\ Chosen(q)
      BY <1>0, <1>13 DEF GalleryFilled, At, Goes, Processes, Steps, Chosen
    <2>2. rec \in Records
      BY <1>0 DEF TypeOK
    <2>3. /\ Becomes(a, q) \/ Becomes(a, Raise(p))
          /\ rec' = rec
      BY <1>13 DEF GalleryFilled, Decide, remote
    <2>4. /\ art' \in Artworks /\ shop' \in Listings /\ sold' = sold /\ edits' = edits
          /\ used' \in 0..MaxCommands
      BY <1>0, <1>13 DEF GalleryFilled, Decide, remote, TypeOK
    <2>. HIDE DEF q
    <2>. QED BY <1>0, <2>1, <2>2, <2>3, <2>4, MoveType DEF TypeOK
  <1>14. CASE Relink(a)
    <2>. DEFINE q == Goes(p, "approve")
                saved == Progress(p)
    <2>1. q \in Processes /\ Chosen(q)
      BY <1>0, <1>14 DEF Relink, At, Goes, Processes, Steps, Chosen
    <2>2. saved \in Records
      BY <1>0, <1>14 DEF Records, Processes
    <2>3. /\ Becomes(a, q) \/ Becomes(a, Raise(p))
          /\ rec' \in {rec, saved}
      BY <1>14 DEF Relink, Write, remote
    <2>4. /\ art' \in Artworks /\ shop' \in Listings /\ sold' = sold /\ edits' = edits
          /\ used' \in 0..MaxCommands
      BY <1>0, <1>14 DEF Relink, Write, remote, TypeOK, Listings, Photos, AllPhotos, Processes
    <2>. HIDE DEF q, saved
    <2>. QED BY <1>0, <2>1, <2>2, <2>3, <2>4, MoveType DEF TypeOK
  <1>15. CASE Approve(a)
    <2>. DEFINE q == Goes(p, "activate")
                saved == Progress(p)
    <2>1. q \in Processes /\ Chosen(q)
      BY <1>0, <1>15 DEF Approve, At, Goes, Processes, Steps, Chosen
    <2>2. saved \in Records
      BY <1>0, <1>15 DEF Records, Processes
    <2>3. /\ Becomes(a, q) \/ Becomes(a, Raise(p))
          /\ rec' \in {rec, saved}
      BY <1>15 DEF Approve, DecideAndSave, remote
    <2>4. /\ art' \in Artworks /\ shop' \in Listings /\ sold' = sold /\ edits' = edits
          /\ used' \in 0..MaxCommands
      BY <1>0, <1>15 DEF Approve, DecideAndSave, remote, TypeOK
    <2>. HIDE DEF q, saved
    <2>. QED BY <1>0, <2>1, <2>2, <2>3, <2>4, MoveType DEF TypeOK
  <1>16. CASE Activate(a)
    <2>. DEFINE q == Goes(p, "confirm")
    <2>1. q \in Processes /\ Chosen(q)
      BY <1>0, <1>16 DEF Activate, At, Goes, Processes, Steps, Chosen
    <2>2. rec \in Records
      BY <1>0 DEF TypeOK
    <2>3. /\ Becomes(a, q) \/ Becomes(a, Raise(p))
          /\ rec' = rec
      BY <1>16 DEF Activate, Write, remote
    <2>4. /\ art' \in Artworks /\ shop' \in Listings /\ sold' = sold /\ edits' = edits
          /\ used' \in 0..MaxCommands
      BY <1>0, <1>16 DEF Activate, Write, remote, TypeOK, Listings
    <2>. HIDE DEF q
    <2>. QED BY <1>0, <2>1, <2>2, <2>3, <2>4, MoveType DEF TypeOK
  <1>17. CASE Confirm(a)
    <2>. DEFINE q == Goes(p, "persist")
                saved == Progress(p)
    <2>1. q \in Processes /\ Chosen(q)
      BY <1>0, <1>17 DEF Confirm, At, Goes, Processes, Steps, Chosen
    <2>2. saved \in Records
      BY <1>0, <1>17 DEF Records, Processes
    <2>3. /\ Becomes(a, q) \/ Becomes(a, Raise(p))
          /\ rec' \in {rec, saved}
      BY <1>17 DEF Confirm, DecideAndSave, remote
    <2>4. /\ art' \in Artworks /\ shop' \in Listings /\ sold' = sold /\ edits' = edits
          /\ used' \in 0..MaxCommands
      BY <1>0, <1>17 DEF Confirm, DecideAndSave, remote, TypeOK
    <2>. HIDE DEF q, saved
    <2>. QED BY <1>0, <2>1, <2>2, <2>3, <2>4, MoveType DEF TypeOK
  <1>18. CASE Inspect(a)
    <2>. DEFINE q == IF Untouched(p) THEN Goes(p, "reactivate")
                   ELSE [Goes(p, "resume") EXCEPT !.gallery = shop.gallery, !.links = shop.links]
    <2>0. /\ Goes(p, "reactivate") \in Processes /\ Chosen(Goes(p, "reactivate"))
          /\ [Goes(p, "resume") EXCEPT !.gallery = shop.gallery, !.links = shop.links] \in Processes
          /\ Chosen([Goes(p, "resume") EXCEPT !.gallery = shop.gallery, !.links = shop.links])
      <3>1. shop.gallery \in SUBSET AllPhotos /\ shop.links \in SUBSET AllPhotos
        BY <1>0 DEF TypeOK, Listings
      <3>2. Goes(p, "reactivate") \in Processes /\ Chosen(Goes(p, "reactivate"))
        BY <1>0 DEF Goes, Processes, Steps, Chosen
      <3>. QED BY <1>0, <3>1, <3>2, ZenonT(30) DEF Goes, Processes, Steps, Chosen
    <2>1. q \in Processes /\ Chosen(q)
      BY <1>0, <2>0, <1>18 DEF Inspect
    <2>2. rec \in Records
      BY <1>0 DEF TypeOK
    <2>3. /\ Becomes(a, q) \/ Becomes(a, Raise(p))
          /\ rec' = rec
      BY <1>18 DEF Inspect, Decide, remote
    <2>4. /\ art' \in Artworks /\ shop' \in Listings /\ sold' = sold /\ edits' = edits
          /\ used' \in 0..MaxCommands
      BY <1>0, <1>18 DEF Inspect, Decide, remote, TypeOK
    <2>. HIDE DEF q
    <2>. QED BY <1>0, <2>1, <2>2, <2>3, <2>4, MoveType DEF TypeOK
  <1>19. CASE Reactivate(a)
    <2>. DEFINE q == Goes(p, "reverify")
    <2>1. q \in Processes /\ Chosen(q)
      BY <1>0, <1>19 DEF Reactivate, At, Goes, Processes, Steps, Chosen
    <2>2. rec \in Records
      BY <1>0 DEF TypeOK
    <2>3. /\ Becomes(a, q) \/ Becomes(a, Raise(p))
          /\ rec' = rec
      BY <1>19 DEF Reactivate, Write, remote
    <2>4. /\ art' \in Artworks /\ shop' \in Listings /\ sold' = sold /\ edits' = edits
          /\ used' \in 0..MaxCommands
      BY <1>0, <1>19 DEF Reactivate, Write, remote, TypeOK, Listings
    <2>. HIDE DEF q
    <2>. QED BY <1>0, <2>1, <2>2, <2>3, <2>4, MoveType DEF TypeOK
  <1>20. CASE Reverify(a)
    <2>. DEFINE q == Goes(p, "drop")
    <2>1. q \in Processes /\ Chosen(q)
      BY <1>0, <1>20 DEF Reverify, At, Goes, Processes, Steps, Chosen
    <2>2. rec \in Records
      BY <1>0 DEF TypeOK
    <2>3. /\ Becomes(a, q) \/ Becomes(a, Raise(p))
          /\ rec' = rec
      BY <1>20 DEF Reverify, Decide, remote
    <2>4. /\ art' \in Artworks /\ shop' \in Listings /\ sold' = sold /\ edits' = edits
          /\ used' \in 0..MaxCommands
      BY <1>0, <1>20 DEF Reverify, Decide, remote, TypeOK
    <2>. HIDE DEF q
    <2>. QED BY <1>0, <2>1, <2>2, <2>3, <2>4, MoveType DEF TypeOK
  <1>21. CASE Resume(a)
    <2>. DEFINE q == Goes(p, "barrier")
                saved == Progress(p)
    <2>1. q \in Processes /\ Chosen(q)
      BY <1>0, <1>21 DEF Resume, At, Goes, Processes, Steps, Chosen
    <2>2. saved \in Records
      BY <1>0, <1>21 DEF Records, Processes
    <2>3. /\ Becomes(a, q) \/ Becomes(a, Raise(p))
          /\ rec' \in {rec, saved}
      BY <1>21 DEF Resume, DecideAndSave, remote
    <2>4. /\ art' \in Artworks /\ shop' \in Listings /\ sold' = sold /\ edits' = edits
          /\ used' \in 0..MaxCommands
      BY <1>0, <1>21 DEF Resume, DecideAndSave, remote, TypeOK
    <2>. HIDE DEF q, saved
    <2>. QED BY <1>0, <2>1, <2>2, <2>3, <2>4, MoveType DEF TypeOK
  <1>22. CASE StartReplace(a)
    <2>. DEFINE q == [Idle EXCEPT !.pc = "preflight", !.kind = "replace", !.id = used + 1,
                                  !.upload = rec.upload]
    <2>0. used + 1 \in 0..MaxCommands /\ rec.upload \in Artworks /\ rec \in Records
      BY <1>0, <1>22 DEF StartReplace, TypeOK, Records
    <2>1. q \in Processes /\ Chosen(q)
      BY <1>0, <1>22, <2>0, ZenonT(30) DEF Processes, Steps, Chosen
    <2>2. /\ Becomes(a, q) \/ Becomes(a, Raise(p))
          /\ rec' \in Records /\ used' \in 0..MaxCommands
      BY <1>0, <1>22, <2>0 DEF StartReplace, TypeOK
    <2>3. art' \in Artworks /\ shop' \in Listings /\ sold' = sold /\ edits' = edits
      BY <1>0, <1>22 DEF StartReplace, remote, TypeOK
    <2>. HIDE DEF q
    <2>. QED BY <2>1, <2>2, <2>3, MoveType
  <1>23. CASE Begin(a)
    <2>. DEFINE q == [Goes(p, "upload") EXCEPT !.op = p.id]
    <2>0. /\ [Unstarted EXCEPT !.run = "verification_required", !.upload = rec.upload,
                           !.status = "in_progress", !.op = p.id, !.snap = p.snap] \in Records
          /\ p.id \in 0..MaxCommands
      <3>1. Unstarted \in Records
        BY DEF Unstarted, Records, Statuses, None, Artworks
      <3>2. rec.upload \in Artworks /\ p.id \in 0..MaxCommands /\ p.snap \in SUBSET EditKinds
        BY <1>0 DEF TypeOK, Records, Processes
      <3>. QED BY <3>1, <3>2 DEF Records, Statuses
    <2>1. q \in Processes /\ Chosen(q)
      BY <1>0, <1>23, <2>0, ZenonT(30) DEF Goes, Processes, Steps, Chosen
    <2>2. /\ Becomes(a, q) \/ Becomes(a, Raise(p))
          /\ rec' \in Records /\ used' \in 0..MaxCommands
      BY <1>0, <1>23, <2>0 DEF Begin, TypeOK
    <2>3. art' \in Artworks /\ shop' \in Listings /\ sold' = sold /\ edits' = edits
      BY <1>0, <1>23 DEF Begin, remote, TypeOK
    <2>. HIDE DEF q
    <2>. QED BY <2>1, <2>2, <2>3, MoveType
  <1>24. CASE NotRendered(a)
    <2>. DEFINE q == IF p.polls + 1 < Polls THEN [p EXCEPT !.polls = @ + 1] ELSE Raise(p)
    <2>0. /\ Raise(p) \in Processes /\ Chosen(Raise(p))
          /\ p.polls + 1 < Polls => /\ [p EXCEPT !.polls = @ + 1] \in Processes
                                    /\ Chosen([p EXCEPT !.polls = @ + 1])
      BY <1>0, <1>24 DEF NotRendered, At, Processes, Chosen
    <2>1. q \in Processes /\ Chosen(q)
      BY <1>0, <1>24, <2>0 DEF NotRendered
    <2>2. /\ Becomes(a, q) \/ Becomes(a, Raise(p))
          /\ rec' \in Records /\ used' \in 0..MaxCommands
      BY <1>0, <1>24 DEF NotRendered, DecideAndSave, TypeOK
    <2>3. art' \in Artworks /\ shop' \in Listings /\ sold' = sold /\ edits' = edits
      BY <1>0, <1>24 DEF NotRendered, DecideAndSave, remote, TypeOK
    <2>. HIDE DEF q
    <2>. QED BY <2>1, <2>2, <2>3, MoveType
  <1>25. CASE Barrier(a)
    <2>. DEFINE q == IF p.gallery # {} THEN [Goes(p, "unlink") EXCEPT !.links = {}] ELSE Raise(p)
    <2>0. /\ Raise(p) \in Processes /\ Chosen(Raise(p))
          /\ p.gallery # {} => /\ [Goes(p, "unlink") EXCEPT !.links = {}] \in Processes
                               /\ Chosen([Goes(p, "unlink") EXCEPT !.links = {}])
      BY <1>0 DEF Goes, Processes, Steps, Chosen
    <2>1. q \in Processes /\ Chosen(q)
      BY <1>0, <1>25, <2>0 DEF Barrier
    <2>2. /\ Becomes(a, q) \/ Becomes(a, Raise(p))
          /\ rec' \in Records /\ used' \in 0..MaxCommands
      BY <1>0, <1>25 DEF Barrier, Decide, TypeOK
    <2>3. art' \in Artworks /\ shop' \in Listings /\ sold' = sold /\ edits' = edits
      BY <1>0, <1>25 DEF Barrier, Decide, remote, TypeOK
    <2>. HIDE DEF q
    <2>. QED BY <2>1, <2>2, <2>3, MoveType
  <1>26. CASE Persist(a)
    <2>. DEFINE q == Idle
    <2>0. [rec EXCEPT !.status = "completed", !.run = "published", !.upload = p.new,
                     !.new = p.new, !.stale = FALSE] \in Records
      BY <1>0 DEF TypeOK, Records, Statuses, Processes
    <2>1. q \in Processes /\ Chosen(q)
      BY <1>0, <1>26, <2>0 DEF Goes, Processes, Steps, Chosen
    <2>2. /\ Becomes(a, q) \/ Becomes(a, Raise(p))
          /\ rec' \in Records /\ used' \in 0..MaxCommands
      BY <1>0, <1>26, <2>0 DEF Persist, TypeOK
    <2>3. art' \in Artworks /\ shop' \in Listings /\ sold' = sold /\ edits' = edits
      BY <1>0, <1>26 DEF Persist, remote, TypeOK
    <2>. HIDE DEF q
    <2>. QED BY <2>1, <2>2, <2>3, MoveType
  <1>27. CASE Drop(a)
    <2>. DEFINE q == Idle
    <2>0. [rec EXCEPT !.status = "aborted", !.run = "published", !.stale = FALSE] \in Records
      BY <1>0 DEF TypeOK, Records, Statuses
    <2>1. q \in Processes /\ Chosen(q)
      BY <1>0, <1>27, <2>0 DEF Goes, Processes, Steps, Chosen
    <2>2. /\ Becomes(a, q) \/ Becomes(a, Raise(p))
          /\ rec' \in Records /\ used' \in 0..MaxCommands
      BY <1>0, <1>27, <2>0 DEF Drop, TypeOK
    <2>3. art' \in Artworks /\ shop' \in Listings /\ sold' = sold /\ edits' = edits
      BY <1>0, <1>27 DEF Drop, remote, TypeOK
    <2>. HIDE DEF q
    <2>. QED BY <2>1, <2>2, <2>3, MoveType
  <1>28. CASE Restored(a)
    <2>. DEFINE q == IF Becomes(a, Goes(p, "silence")) THEN Goes(p, "silence")
                   ELSE [Goes(p, "record") EXCEPT !.safe = TRUE]
    <2>0. /\ Goes(p, "silence") \in Processes /\ Chosen(Goes(p, "silence"))
          /\ [Goes(p, "record") EXCEPT !.safe = TRUE] \in Processes
          /\ Chosen([Goes(p, "record") EXCEPT !.safe = TRUE])
      <3>1. Goes(p, "silence") \in Processes /\ Chosen(Goes(p, "silence"))
        BY <1>0 DEF Goes, Processes, Steps, Chosen
      <3>2. Goes(p, "record") \in Processes /\ Goes(p, "record").pc = "record"
        BY <1>0 DEF Goes, Processes, Steps
      <3>3. /\ [Goes(p, "record") EXCEPT !.safe = TRUE] \in Processes
            /\ Chosen([Goes(p, "record") EXCEPT !.safe = TRUE])
        BY <3>2 DEF Processes, Chosen
      <3>. QED BY <3>1, <3>3
    <2>1. q \in Processes /\ Chosen(q)
      BY <1>0, <1>28, <2>0 DEF Restored
    <2>2. /\ Becomes(a, q) \/ Becomes(a, Raise(p))
          /\ rec' \in Records /\ used' \in 0..MaxCommands
      BY <1>0, <1>28 DEF Restored, TypeOK
    <2>3. art' \in Artworks /\ shop' \in Listings /\ sold' = sold /\ edits' = edits
      BY <1>0, <1>28 DEF Restored, remote, TypeOK
    <2>. HIDE DEF q
    <2>. QED BY <2>1, <2>2, <2>3, MoveType
  <1>29. CASE Restore(a)
    <2>. DEFINE q == IF Becomes(a, Goes(p, "silence")) THEN Goes(p, "silence") ELSE Goes(p, "restored")
    <2>0. /\ Goes(p, "silence") \in Processes /\ Chosen(Goes(p, "silence"))
          /\ Goes(p, "restored") \in Processes /\ Chosen(Goes(p, "restored"))
      BY <1>0 DEF Goes, Processes, Steps, Chosen
    <2>1. q \in Processes /\ Chosen(q)
      BY <1>0, <1>29, <2>0 DEF Restore
    <2>2. /\ Becomes(a, q) \/ Becomes(a, Raise(p))
          /\ rec' \in Records /\ used' \in 0..MaxCommands
      BY <1>0, <1>29 DEF Restore, TypeOK
    <2>3. art' \in Artworks /\ shop' \in Listings /\ sold' = sold /\ edits' = edits
      BY <1>0, <1>29 DEF Restore, remote, TypeOK, Listings
    <2>. HIDE DEF q
    <2>. QED BY <2>1, <2>2, <2>3, MoveType
  <1>30. CASE Silence(a)
    <2>. DEFINE q == Goes(p, "record")
    <2>1. q \in Processes /\ Chosen(q)
      BY <1>0, <1>30 DEF Goes, Processes, Steps, Chosen
    <2>2. /\ Becomes(a, q) \/ Becomes(a, Raise(p))
          /\ rec' \in Records /\ used' \in 0..MaxCommands
      BY <1>0, <1>30 DEF Silence, TypeOK
    <2>3. art' \in Artworks /\ shop' \in Listings /\ sold' = sold /\ edits' = edits
      BY <1>0, <1>30 DEF Silence, TypeOK, Listings
    <2>. HIDE DEF q
    <2>. QED BY <2>1, <2>2, <2>3, MoveType
  <1>31. CASE RecordOutcome(a)
    <2>. DEFINE q == Idle
    <2>0. Saved(p, Outcome(p)) \in Records
      BY <1>0, SavedType DEF TypeOK, Outcome, Statuses
    <2>1. q \in Processes /\ Chosen(q)
      BY <1>0, <1>31, <2>0 DEF Goes, Processes, Steps, Chosen
    <2>2. /\ Becomes(a, q) \/ Becomes(a, Raise(p))
          /\ rec' \in Records /\ used' \in 0..MaxCommands
      BY <1>0, <1>31, <2>0 DEF RecordOutcome, TypeOK
    <2>3. art' \in Artworks /\ shop' \in Listings /\ sold' = sold /\ edits' = edits
      BY <1>0, <1>31 DEF RecordOutcome, remote, TypeOK
    <2>. HIDE DEF q
    <2>. QED BY <2>1, <2>2, <2>3, MoveType
  <1>32. CASE StartReconcile(a)
    <2>. DEFINE q == [Idle EXCEPT !.pc = "lease", !.kind = "reconcile", !.id = used + 1,
                      !.op = rec.op, !.upload = rec.upload, !.new = rec.new,
                      !.mocks = rec.mocks, !.retained = rec.retained, !.snap = rec.snap,
                      !.takeover = CASE rec.status = "reconciling" -> rec.attempt
                                     [] rec.status = "in_progress" -> rec.op
                                     [] OTHER                      -> None]
    <2>0. /\ used + 1 \in 0..MaxCommands /\ rec \in Records
          /\ rec.op \in 0..MaxCommands /\ rec.upload \in Artworks /\ rec.new \in Artworks
          /\ rec.mocks \in BOOLEAN /\ rec.retained \in 0..NumColors
          /\ rec.snap \in SUBSET EditKinds
          /\ (CASE rec.status = "reconciling" -> rec.attempt
              [] rec.status = "in_progress" -> rec.op
              [] OTHER                      -> None) \in 0..MaxCommands
      BY <1>0, <1>32 DEF StartReconcile, TypeOK, Records, None
    <2>1. q \in Processes /\ Chosen(q)
      BY <1>0, <1>32, <2>0, ZenonT(30) DEF Processes, Steps, Chosen
    <2>2. /\ Becomes(a, q) \/ Becomes(a, Raise(p))
          /\ rec' \in Records /\ used' \in 0..MaxCommands
      BY <1>0, <1>32, <2>0 DEF StartReconcile, TypeOK
    <2>3. art' \in Artworks /\ shop' \in Listings /\ sold' = sold /\ edits' = edits
      BY <1>0, <1>32 DEF StartReconcile, remote, TypeOK
    <2>. HIDE DEF q
    <2>. QED BY <2>1, <2>2, <2>3, MoveType
  <1>33. CASE Lease(a)
    <2>. DEFINE q == [Goes(p, "inspect") EXCEPT !.attempt = p.id]
    <2>0. /\ [rec EXCEPT !.status = "reconciling", !.attempt = p.id, !.stale = FALSE] \in Records
          /\ p.id \in 0..MaxCommands
      BY <1>0 DEF TypeOK, Records, Statuses, Processes
    <2>1. q \in Processes /\ Chosen(q)
      BY <1>0, <1>33, <2>0, ZenonT(30) DEF Goes, Processes, Steps, Chosen
    <2>2. /\ Becomes(a, q) \/ Becomes(a, Raise(p))
          /\ rec' \in Records /\ used' \in 0..MaxCommands
      BY <1>0, <1>33, <2>0 DEF Lease, TypeOK
    <2>3. art' \in Artworks /\ shop' \in Listings /\ sold' = sold /\ edits' = edits
      BY <1>0, <1>33 DEF Lease, remote, TypeOK
    <2>. HIDE DEF q
    <2>. QED BY <2>1, <2>2, <2>3, MoveType
  <1>34. CASE RemoteFails(a)
    <2>. DEFINE q == p
    <2>1. q \in Processes /\ Chosen(q)
      BY <1>0, <1>34 DEF RemoteFails
    <2>2. /\ Becomes(a, q) \/ Becomes(a, Raise(p))
          /\ rec' \in Records /\ used' \in 0..MaxCommands
      BY <1>0, <1>34 DEF RemoteFails, Decide, TypeOK
    <2>3. art' \in Artworks /\ shop' \in Listings /\ sold' = sold /\ edits' = edits
      BY <1>0, <1>34 DEF RemoteFails, Decide, remote, TypeOK
    <2>. HIDE DEF q
    <2>. QED BY <2>1, <2>2, <2>3, MoveType
  <1>35. CASE Crash(a)
    <2>. DEFINE q == Idle
    <2>1. q \in Processes /\ Chosen(q)
      BY <1>0, <1>35 DEF Goes, Processes, Steps, Chosen
    <2>2. /\ Becomes(a, q) \/ Becomes(a, Raise(p))
          /\ rec' \in Records /\ used' \in 0..MaxCommands
      BY <1>0, <1>35 DEF Crash, TypeOK
    <2>3. art' \in Artworks /\ shop' \in Listings /\ sold' = sold /\ edits' = edits
      BY <1>0, <1>35 DEF Crash, remote, TypeOK
    <2>. HIDE DEF q
    <2>. QED BY <2>1, <2>2, <2>3, MoveType
  <1>36. CASE PrintAreas(a)
    <2>. DEFINE q == IF Becomes(a, Goes(p, "render")) THEN Goes(p, "render") ELSE Raise([p EXCEPT !.fulfil = FALSE])
    <2>0. /\ Goes(p, "render") \in Processes /\ Chosen(Goes(p, "render"))
          /\ Raise([p EXCEPT !.fulfil = FALSE]) \in Processes
          /\ Chosen(Raise([p EXCEPT !.fulfil = FALSE]))
      <3>1. Goes(p, "render") \in Processes /\ Chosen(Goes(p, "render"))
        BY <1>0 DEF Goes, Processes, Steps, Chosen
      <3>2. [p EXCEPT !.fulfil = FALSE] \in Processes
        BY <1>0 DEF Processes
      <3>. QED BY <3>1, <3>2, RaiseType
    <2>1. q \in Processes /\ Chosen(q)
      BY <1>0, <1>36, <2>0 DEF PrintAreas
    <2>2. /\ Becomes(a, q) \/ Becomes(a, Raise(p))
          /\ rec' \in Records /\ used' \in 0..MaxCommands
      BY <1>0, <1>36 DEF PrintAreas, TypeOK
    <2>3. art' \in Artworks /\ shop' \in Listings /\ sold' = sold /\ edits' = edits
      BY <1>0, <1>36 DEF PrintAreas, TypeOK, Processes
    <2>. HIDE DEF q
    <2>. QED BY <2>1, <2>2, <2>3, MoveType
  <1>. QED BY <1>1, <1>2, <1>3, <1>4, <1>5, <1>6, <1>7, <1>8, <1>9, <1>10, <1>11, <1>12,
              <1>13, <1>14, <1>15, <1>16, <1>17, <1>18, <1>19, <1>20, <1>21, <1>22, <1>23, <1>24,
              <1>25, <1>26, <1>27, <1>28, <1>29, <1>30, <1>31, <1>32, <1>33, <1>34, <1>35, <1>36
       DEF Replacing, Photographing, Finishing, Reconciling

(* Every step keeps the types. *)
LEMMA TypeStep ==
    ASSUME TypeInv, [Next]_vars
    PROVE  TypeInv'
  <1>1. CASE LeaseExpires
    BY <1>1 DEF LeaseExpires, TypeInv, TypeOK, Records, remote, Chosen
  <1>2. CASE Sale
    <2>1. \A i \in shop.gallery : i[1] \in Artworks
      BY DEF TypeInv, TypeOK, Listings, AllPhotos
    <2>. QED BY <1>2, <2>1 DEF Sale, TypeInv, TypeOK, Chosen
  <1>3. ASSUME NEW kind \in EditKinds, OtherEdit(kind) PROVE TypeInv'
    BY <1>3 DEF OtherEdit, TypeInv, TypeOK, Chosen
  <1>4. CASE UNCHANGED vars
    BY <1>4 DEF vars, TypeInv, TypeOK, Chosen
  <1>. QED BY <1>1, <1>2, <1>3, <1>4, CommandType DEF Next

(* The initial state is typed. *)
LEMMA TypeInit == Init => TypeInv
  <1>1. Photos(0) \subseteq AllPhotos
    BY DEF Photos, AllPhotos, Artworks
  <1>2. Init => rec \in Records
    BY DEF Init, Unstarted, Records, Statuses, None, Artworks
  <1>. QED BY <1>1, <1>2, IdleSound DEF Init, TypeInv, TypeOK, Chosen, Sound, Listings, Artworks

(* Every variable keeps its type, whoever wakes up after losing a lease.     *)
THEOREM TypeCorrect == Spec => []TypeOK
  <1>1. TypeInv /\ [Next]_vars => TypeInv'
    BY TypeStep
  <1>2. TypeInv => TypeOK
    BY DEF TypeInv
  <1>. QED BY TypeInit, <1>1, <1>2, PTL DEF Spec

-----------------------------------------------------------------------------
(* Steps of the active command *)

(* A step after which the same command is active and the checkpoint is its   *)
(* own keeps the invariant when it keeps what the command knows.             *)
LEMMA OwnStep ==
    ASSUME ReplacementInv, TypeOK', World', SoldAsPrinted',
           NEW a \in Operators, Active(proc[a]), Active(proc[a])', Sound(proc[a])',
           \A b \in Operators \ {a} : proc'[b] = proc[b],
           Same(proc[a], proc'[a]), used' = used,
           rec'.upload = rec.upload, rec'.op = rec.op, rec'.attempt = rec.attempt,
           \/ rec'.new = rec.new /\ rec'.mocks = rec.mocks
           \/ proc[a].kind = "replace" /\ rec'.new \in {rec.new, proc[a].id},
           Holds(proc[a])', Knows(proc[a])'
    PROVE  ReplacementInv'
  <1>1. Holds(proc[a]) /\ \A b \in Operators : Sound(proc[b])
    BY DEF ReplacementInv, Commanded
  <1>2. \A b \in Operators \ {a} : ~Active(proc[b])'
    BY Alone DEF Active
  <1>3. ASSUME NEW b \in Operators, proc'[b].pc = "lease"
        PROVE  MayLease(proc[b])'
    <2>1. b # a /\ proc'[b] = proc[b]
      BY <1>3 DEF Active, Waiting
    <2>2. MayLease(proc[b])
      BY <2>1, <1>3 DEF ReplacementInv, Commanded
    <2>. QED BY <2>1, <2>2, <1>1 DEF MayLease, Agrees, Holds, Same
  <1>4. Commanded'
    <2>1. \A b \in Operators \ {a} : Sound(proc[b])'
      BY <1>1 DEF Sound, Identified, Remembers, Active
    <2>. QED BY <1>2, <1>3, <2>1 DEF Commanded
  <1>5. Numbered'
    BY DEF ReplacementInv, Numbered, Same, Active, Waiting
  <1>6. PublishedIsLive'
    BY DEF PublishedIsLive, Holds
  <1>. QED BY <1>4, <1>5, <1>6 DEF ReplacementInv

(* A step that ends the active command: the run is published again, or its   *)
(* checkpoint may be taken over.                                             *)
LEMMA OwnEnd ==
    ASSUME ReplacementInv, TypeOK', World', SoldAsPrinted', PublishedIsLive',
           NEW a \in Operators, Active(proc[a]), proc'[a] = Idle,
           \A b \in Operators \ {a} : proc'[b] = proc[b],
           used' = used, rec'.op = rec.op, rec'.attempt = rec.attempt, rec'.upload <= used,
           rec'.new = rec.new,
           \/ rec'.run = "published" \/ rec' = rec
           \/ /\ rec'.status # "in_progress" /\ rec'.upload = rec.upload
              /\ rec'.mocks = rec.mocks
    PROVE  ReplacementInv'
  <1>1. Holds(proc[a]) /\ \A b \in Operators : Sound(proc[b])
    BY DEF ReplacementInv, Commanded
  <1>2. \A b \in Operators : ~Active(proc[b])'
    BY Alone, IdleSound DEF Active
  <1>3. ASSUME NEW b \in Operators, proc'[b].pc = "lease"
        PROVE  MayLease(proc[b])'
    <2>1. b # a /\ proc'[b] = proc[b]
      BY <1>3, IdleSound
    <2>2. MayLease(proc[b])
      BY <2>1, <1>3 DEF ReplacementInv, Commanded
    <2>. QED BY <2>1, <2>2, <1>1 DEF MayLease, Agrees, Holds
  <1>4. Commanded'
    <2>1. \A b \in Operators : Sound(proc[b])'
      BY <1>1, IdleSound DEF Sound, Identified, Remembers, Active
    <2>. QED BY <1>2, <1>3, <2>1 DEF Commanded
  <1>5. Numbered'
    <2>1. used \in Nat /\ Idle.id = 0 /\ Idle.op = 0 /\ Idle.kind = "none" /\ Idle.pc = "idle"
      BY DEF ReplacementInv, TypeOK, Idle, None
    <2>2. \A b \in Operators : proc[b].kind # "none" \/ proc[b].pc \in {"preflight", "begin"}
                                    => proc[b].id # 0
      BY <1>1 DEF Sound, Identified, None
    <2>. QED BY <2>1, <2>2 DEF ReplacementInv, Numbered
  <1>. QED BY <1>4, <1>5 DEF ReplacementInv

(* A raising step: what the except clause relies on still holds. *)
LEMMA RaiseStep ==
    ASSUME ReplacementInv, TypeOK', World', SoldAsPrinted',
           NEW a \in Operators, Active(proc[a]),
           proc[a].pc \notin {"silence", "record", "restore", "restored"},
           Becomes(a, Raise(proc[a])), used' = used,
           rec' = [rec EXCEPT !.retained = rec'.retained],
           proc[a].pc = "upload" => UNCHANGED <<art, shop>>,
           proc[a].pc \in {"deactivate", "recheck"} =>
                art' = art /\ shop'.gallery = shop.gallery /\ shop'.links = shop.links
    PROVE  ReplacementInv'
  <1>. DEFINE p == proc[a]
              q == Raise(p)
  <1>0. /\ rec'.run = rec.run /\ rec'.upload = rec.upload /\ rec'.status = rec.status
        /\ rec'.op = rec.op /\ rec'.attempt = rec.attempt /\ rec'.new = rec.new
        /\ rec'.mocks = rec.mocks /\ rec'.stale = rec.stale
    BY DEF ReplacementInv, TypeOK, Records
  <1>1. Sound(p) /\ Holds(p) /\ Knows(p) /\ proc \in [Operators -> Processes]
    BY DEF ReplacementInv, Commanded, TypeOK
  <1>2. proc'[a] = q /\ \A b \in Operators \ {a} : proc'[b] = proc[b]
    BY <1>1 DEF Becomes
  <1>3. /\ Sound(q) /\ Active(q) /\ Same(p, q) /\ q.new = p.new /\ q.mocks = p.mocks
        /\ q.pc \in {"silence", "restore", "record"}
        /\ q.pc = "record" => p.pc = "upload"
        /\ q.pc # "record" => ~q.safe
        /\ q.pc = "restore" => p.kind = "replace" /\ p.deact /\ ~p.fulfil
    BY <1>1, RaiseSound DEF Sound, Identified, Same, ReplaceOnly
  <1>. HIDE DEF q
  <1>4. Holds(p)'
    BY <1>0, <1>1, <1>2, <1>3 DEF Holds, Agrees, Same
  <1>5. Knows(p)'
    <2>1. CASE q.pc = "record"
      BY <2>1, <1>1, <1>2, <1>3 DEF Knows, KnowsRemote, KnowsGallery, Old, Shows, Gallery, Finish, Same
    <2>2. CASE q.pc # "record"
      <3>1. q.pc = "restore" => p.pc \in {"deactivate", "recheck"}
        BY <1>1, <1>3 DEF Sound, Identified, Remembers, Active, Waiting, ReplaceOnly,
           ReconcileOnly, Gallery, Finish, Processes, Steps
      <3>. QED BY <3>1, <2>2, <1>1, <1>2, <1>3 DEF Knows, KnowsRemote, KnowsGallery, Old, Shows, Gallery, Finish, Same
    <2>. QED BY <2>1, <2>2
  <1>6. Sound(p)' /\ Active(p)'
    BY <1>2, <1>3 DEF Sound, Identified, Remembers, Active
  <1>. QED BY <1>0, <1>2, <1>3, <1>4, <1>5, <1>6, OwnStep
-----------------------------------------------------------------------------
(* The steps of the active command, one by one *)

(* A step that changes at most the listing and what the checkpoint says of   *)
(* the retained photo; the command goes on, or raises.                       *)
LEMMA ListingStep ==
    ASSUME ReplacementInv, TypeOK', World', NEW a \in Operators, Active(proc[a]),
           proc[a].pc \notin {"silence", "record", "restore", "restored"},
           UNCHANGED <<art, sold, used>>, rec' = [rec EXCEPT !.retained = rec'.retained],
           \/ /\ Becomes(a, Raise(proc[a]))
              /\ proc[a].pc = "upload" => UNCHANGED shop
              /\ proc[a].pc \in {"deactivate", "recheck"} =>
                      shop'.gallery = shop.gallery /\ shop'.links = shop.links
           \/ /\ \A b \in Operators \ {a} : proc'[b] = proc[b]
              /\ Same(proc[a], proc'[a])
              /\ proc'[a].new = proc[a].new /\ proc'[a].mocks = proc[a].mocks
              /\ Identified(proc[a])' /\ Remembers(proc[a])' /\ Active(proc[a])'
              /\ Knows(proc[a])'
    PROVE  ReplacementInv'
  <1>. DEFINE p == proc[a]
  <1>1. /\ Sound(p) /\ Holds(p) /\ Knows(p) /\ SoldAsPrinted' /\ rec \in Records
        /\ p.kind \in {"replace", "reconcile"}
    BY DEF ReplacementInv, Commanded, TypeOK, SoldAsPrinted, Sound, Identified, Active
  <1>2. CASE /\ Becomes(a, Raise(p))
             /\ p.pc = "upload" => UNCHANGED shop
             /\ p.pc \in {"deactivate", "recheck"} =>
                     shop'.gallery = shop.gallery /\ shop'.links = shop.links
    BY <1>1, <1>2, RaiseStep
  <1>3. CASE /\ \A b \in Operators \ {a} : proc'[b] = proc[b]
             /\ Same(p, proc'[a]) /\ proc'[a].new = p.new /\ proc'[a].mocks = p.mocks
             /\ Identified(p)' /\ Remembers(p)' /\ Active(p)' /\ Knows(p)'
    <2>1. /\ rec'.run = rec.run /\ rec'.upload = rec.upload /\ rec'.status = rec.status
          /\ rec'.op = rec.op /\ rec'.attempt = rec.attempt /\ rec'.new = rec.new
          /\ rec'.mocks = rec.mocks /\ rec'.stale = rec.stale
      BY <1>1, <1>3 DEF Records
    <2>2. Holds(p)'
      BY <1>1, <1>3, <2>1 DEF Holds, Agrees, Same
    <2>3. Sound(p)'
      BY <1>3 DEF TypeOK, Sound
    <2>. QED BY <1>1, <1>3, <2>1, <2>2, <2>3, OwnStep
  <1>. QED BY <1>2, <1>3

(* The facts that every step of the active command starts from. *)
LEMMA ActiveFacts ==
    ASSUME ReplacementInv, NEW a \in Operators, Active(proc[a])
    PROVE  /\ proc \in [Operators -> Processes] /\ proc[a] \in Processes
           /\ Identified(proc[a]) /\ Remembers(proc[a])
           /\ Holds(proc[a]) /\ Knows(proc[a]) /\ World
           /\ proc[a].kind \in {"replace", "reconcile"}
           /\ MayCheckpoint(proc[a]) /\ Progress(proc[a]) = rec
           /\ rec \in Records /\ shop \in Listings
  BY OwnCheckpoint DEF ReplacementInv, Commanded, Sound, TypeOK, Identified, Active

(* deactivate_listing: the published photos are still all there. *)
LEMMA DeactivateKeeps ==
    ASSUME ReplacementInv, TypeOK', NEW a \in Operators, Deactivate(a)
    PROVE  ReplacementInv'
  <1>. DEFINE p == proc[a]
              q == Goes(p, "recheck")
  <1>1. p.pc = "deactivate" /\ Active(p)
    BY DEF Deactivate, At, Active, Waiting
  <1>2. Old(p)
    BY <1>1, ActiveFacts DEF Knows, KnowsRemote, KnowsGallery, Gallery, Finish, Old, New,
       OldPhotos, Shows, Remembers
  <1>3. /\ UNCHANGED <<art, sold, used>> /\ shop'.gallery = shop.gallery /\ shop'.links = shop.links
        /\ rec' = [rec EXCEPT !.retained = rec'.retained]
        /\ Becomes(a, Raise(p)) \/ (Becomes(a, q) /\ shop'.state = "inactive")
    BY <1>1, <1>2, ActiveFacts DEF Deactivate, Write, remote, Records, Listings
  <1>4. World'
    BY <1>1, <1>2, <1>3, ActiveFacts DEF World, Shows, Records, Listings, Old
  <1>5. CASE Becomes(a, Raise(p))
    BY <1>1, <1>2, <1>3, <1>4, <1>5, ActiveFacts, ListingStep DEF Listings
  <1>6. CASE Becomes(a, q) /\ shop'.state = "inactive"
    <2>1. /\ proc'[a].pc = "recheck" /\ Same(p, proc'[a])
          /\ proc'[a].new = p.new /\ proc'[a].mocks = p.mocks /\ proc'[a].deact = p.deact /\ proc'[a].fulfil = p.fulfil /\ proc'[a].safe = p.safe
          /\ \A b \in Operators \ {a} : proc'[b] = proc[b]
      BY <1>1, <1>6, ActiveFacts DEF Becomes, Goes, Processes, Same
    <2>2. Identified(p)' /\ Remembers(p)' /\ Active(p)'
      BY <1>1, <1>2, <2>1, ActiveFacts DEF Identified, Remembers, Active, Waiting, ReplaceOnly,
         ReconcileOnly, Gallery, Finish, Same
    <2>3. Knows(p)'
      BY <1>1, <1>2, <1>3, <1>4, <1>6, <2>1, <2>2, ActiveFacts DEF Knows, KnowsRemote,
         KnowsGallery, Old, New, OldPhotos, Shows, Gallery, Finish, Same, Remembers
    <2>. QED BY <1>1, <1>3, <1>4, <2>1, <2>2, <2>3, ListingStep
  <1>. QED BY <1>3, <1>5, <1>6

(* An order seen after the deactivation stops the command. *)
LEMMA RecheckKeeps ==
    ASSUME ReplacementInv, TypeOK', NEW a \in Operators, Recheck(a)
    PROVE  ReplacementInv'
  <1>. DEFINE p == proc[a]
              q == [Goes(p, "print") EXCEPT !.fulfil = TRUE]
  <1>1. p.pc = "recheck" /\ Active(p)
    BY DEF Recheck, At, Active, Waiting
  <1>2. Old(p) /\ shop.state = "inactive"
    BY <1>1, ActiveFacts DEF Knows, KnowsRemote, KnowsGallery, Gallery, Finish, Old, New,
       OldPhotos, Shows, Remembers
  <1>3. /\ UNCHANGED <<art, sold, used>> /\ UNCHANGED shop
        /\ rec' = [rec EXCEPT !.retained = rec'.retained]
        /\ Becomes(a, Raise(p)) \/ (Becomes(a, q) /\ sold = {})
    BY <1>1, <1>2, ActiveFacts DEF Recheck, Decide, remote, Records, Ordered
  <1>4. World'
    BY <1>1, <1>2, <1>3, ActiveFacts DEF World, Shows, Records, Listings
  <1>5. CASE Becomes(a, Raise(p))
    BY <1>1, <1>2, <1>3, <1>4, <1>5, ActiveFacts, ListingStep DEF Listings
  <1>6. CASE Becomes(a, q) /\ sold = {}
    <2>1. /\ proc'[a].pc = "print" /\ Same(p, proc'[a])
          /\ proc'[a].new = p.new /\ proc'[a].mocks = p.mocks /\ proc'[a].deact = p.deact /\ proc'[a].safe = p.safe /\ proc'[a].fulfil
          /\ \A b \in Operators \ {a} : proc'[b] = proc[b]
      BY <1>1, <1>6, ActiveFacts DEF Becomes, Goes, Processes, Same
    <2>2. Identified(p)' /\ Remembers(p)' /\ Active(p)'
      BY <1>1, <1>2, <2>1, ActiveFacts DEF Identified, Remembers, Active, Waiting, ReplaceOnly,
         ReconcileOnly, Gallery, Finish, Same
    <2>3. Knows(p)'
      BY <1>1, <1>2, <1>3, <1>4, <1>6, <2>1, <2>2, ActiveFacts DEF Knows, KnowsRemote,
         KnowsGallery, Old, New, OldPhotos, Shows, Gallery, Finish, Same, Remembers
    <2>. QED BY <1>1, <1>3, <1>4, <2>1, <2>2, <2>3, ListingStep
  <1>. QED BY <1>3, <1>5, <1>6

(* A readback that does not show the new mockups changes nothing. *)
LEMMA NotRenderedKeeps ==
    ASSUME ReplacementInv, TypeOK', NEW a \in Operators, NotRendered(a)
    PROVE  ReplacementInv'
  <1>. DEFINE p == proc[a]
              q == [p EXCEPT !.polls = @ + 1]
  <1>1. p.pc = "render" /\ Active(p)
    BY DEF NotRendered, At, Active, Waiting
  <1>2. New(p)
    BY <1>1, ActiveFacts DEF Knows, KnowsRemote, KnowsGallery, Gallery, Finish, Old, New,
       OldPhotos, Shows, Remembers
  <1>3. /\ UNCHANGED <<art, sold, used>> /\ UNCHANGED shop
        /\ rec' = [rec EXCEPT !.retained = rec'.retained]
        /\ Becomes(a, Raise(p)) \/ (Becomes(a, q) /\ TRUE)
    BY <1>1, <1>2, ActiveFacts DEF NotRendered, DecideAndSave, remote, Records
  <1>4. World'
    BY <1>1, <1>2, <1>3, ActiveFacts DEF World, Shows, Records, Listings
  <1>5. CASE Becomes(a, Raise(p))
    BY <1>1, <1>2, <1>3, <1>4, <1>5, ActiveFacts, ListingStep DEF Listings
  <1>6. CASE Becomes(a, q) /\ TRUE
    <2>1. /\ proc'[a].pc = "render" /\ Same(p, proc'[a])
          /\ proc'[a].new = p.new /\ proc'[a].mocks = p.mocks /\ proc'[a].deact = p.deact /\ proc'[a].fulfil = p.fulfil /\ proc'[a].safe = p.safe
          /\ \A b \in Operators \ {a} : proc'[b] = proc[b]
      BY <1>1, <1>6, ActiveFacts DEF Becomes, Goes, Processes, Same
    <2>2. Identified(p)' /\ Remembers(p)' /\ Active(p)'
      BY <1>1, <1>2, <2>1, ActiveFacts DEF Identified, Remembers, Active, Waiting, ReplaceOnly,
         ReconcileOnly, Gallery, Finish, Same
    <2>3. Knows(p)'
      BY <1>1, <1>2, <1>3, <1>4, <1>6, <2>1, <2>2, ActiveFacts DEF Knows, KnowsRemote,
         KnowsGallery, Old, New, OldPhotos, Shows, Gallery, Finish, Same, Remembers
    <2>. QED BY <1>1, <1>3, <1>4, <2>1, <2>2, <2>3, ListingStep
  <1>. QED BY <1>3, <1>5, <1>6

(* The gallery found is the published one. *)
LEMMA PreGalleryKeeps ==
    ASSUME ReplacementInv, TypeOK', NEW a \in Operators, PreGallery(a)
    PROVE  ReplacementInv'
  <1>. DEFINE p == proc[a]
              q == [Goes(p, "barrier") EXCEPT !.gallery = shop.gallery, !.links = shop.links]
  <1>1. p.pc = "pregallery" /\ Active(p)
    BY DEF PreGallery, At, Active, Waiting
  <1>2. New(p) /\ p.mocks
    BY <1>1, ActiveFacts DEF Knows, KnowsRemote, KnowsGallery, Gallery, Finish, Old, New,
       OldPhotos, Shows, Remembers
  <1>3. /\ UNCHANGED <<art, sold, used>> /\ UNCHANGED shop
        /\ rec' = [rec EXCEPT !.retained = rec'.retained]
        /\ Becomes(a, Raise(p)) \/ (Becomes(a, q) /\ Shows(p.upload))
    BY <1>1, <1>2, ActiveFacts DEF PreGallery, Decide, remote, Records, Shows
  <1>4. World'
    BY <1>1, <1>2, <1>3, ActiveFacts DEF World, Shows, Records, Listings
  <1>5. CASE Becomes(a, Raise(p))
    BY <1>1, <1>2, <1>3, <1>4, <1>5, ActiveFacts, ListingStep DEF Listings
  <1>6. CASE Becomes(a, q) /\ Shows(p.upload)
    <2>1. /\ proc'[a].pc = "barrier" /\ Same(p, proc'[a])
          /\ proc'[a].new = p.new /\ proc'[a].mocks = p.mocks /\ proc'[a].deact = p.deact /\ proc'[a].fulfil = p.fulfil /\ proc'[a].safe = p.safe /\ proc'[a].gallery = shop.gallery
          /\ \A b \in Operators \ {a} : proc'[b] = proc[b]
      BY <1>1, <1>6, ActiveFacts DEF Becomes, Goes, Processes, Same
    <2>2. Identified(p)' /\ Remembers(p)' /\ Active(p)'
      BY <1>1, <1>2, <2>1, ActiveFacts DEF Identified, Remembers, Active, Waiting, ReplaceOnly,
         ReconcileOnly, Gallery, Finish, Same
    <2>3. Knows(p)'
      BY <1>1, <1>2, <1>3, <1>4, <1>6, <2>1, <2>2, ActiveFacts DEF Knows, KnowsRemote,
         KnowsGallery, Old, New, OldPhotos, Shows, Gallery, Finish, Same, Remembers, World
    <2>. QED BY <1>1, <1>3, <1>4, <2>1, <2>2, <2>3, ListingStep
  <1>. QED BY <1>3, <1>5, <1>6

(* The listing is read again before the first photo goes. *)
LEMMA BarrierKeeps ==
    ASSUME ReplacementInv, TypeOK', NEW a \in Operators, Barrier(a)
    PROVE  ReplacementInv'
  <1>. DEFINE p == proc[a]
              q == [Goes(p, "unlink") EXCEPT !.links = {}]
  <1>1. p.pc = "barrier" /\ Active(p)
    BY DEF Barrier, At, Active, Waiting
  <1>2. New(p) /\ p.mocks /\ OldPhotos(p)
    BY <1>1, ActiveFacts DEF Knows, KnowsRemote, KnowsGallery, Gallery, Finish, Old, New,
       OldPhotos, Shows, Remembers
  <1>3. /\ UNCHANGED <<art, sold, used>> /\ UNCHANGED shop
        /\ rec' = [rec EXCEPT !.retained = rec'.retained]
        /\ Becomes(a, Raise(p)) \/ (Becomes(a, q) /\ shop.gallery = p.gallery)
    BY <1>1, <1>2, ActiveFacts DEF Barrier, Decide, remote, Records
  <1>4. World'
    BY <1>1, <1>2, <1>3, ActiveFacts DEF World, Shows, Records, Listings
  <1>5. CASE Becomes(a, Raise(p))
    BY <1>1, <1>2, <1>3, <1>4, <1>5, ActiveFacts, ListingStep DEF Listings
  <1>6. CASE Becomes(a, q) /\ shop.gallery = p.gallery
    <2>1. /\ proc'[a].pc = "unlink" /\ Same(p, proc'[a])
          /\ proc'[a].new = p.new /\ proc'[a].mocks = p.mocks /\ proc'[a].deact = p.deact /\ proc'[a].fulfil = p.fulfil /\ proc'[a].safe = p.safe /\ proc'[a].gallery = p.gallery
          /\ \A b \in Operators \ {a} : proc'[b] = proc[b]
      BY <1>1, <1>6, ActiveFacts DEF Becomes, Goes, Processes, Same
    <2>2. Identified(p)' /\ Remembers(p)' /\ Active(p)'
      BY <1>1, <1>2, <2>1, ActiveFacts DEF Identified, Remembers, Active, Waiting, ReplaceOnly,
         ReconcileOnly, Gallery, Finish, Same
    <2>3. Knows(p)'
      BY <1>1, <1>2, <1>3, <1>4, <1>6, <2>1, <2>2, ActiveFacts DEF Knows, KnowsRemote,
         KnowsGallery, Old, New, OldPhotos, Shows, Gallery, Finish, Same, Remembers
    <2>. QED BY <1>1, <1>3, <1>4, <2>1, <2>2, <2>3, ListingStep
  <1>. QED BY <1>3, <1>5, <1>6

(* The colour links go first; every photo stays. *)
LEMMA UnlinkKeeps ==
    ASSUME ReplacementInv, TypeOK', NEW a \in Operators, Unlink(a)
    PROVE  ReplacementInv'
  <1>. DEFINE p == proc[a]
              q == [Goes(p, "delete") EXCEPT !.todo = p.gallery \ {Last(p.gallery)}]
  <1>1. p.pc = "unlink" /\ Active(p)
    BY DEF Unlink, At, Active, Waiting
  <1>2. /\ New(p) /\ p.mocks /\ OldPhotos(p) /\ shop.gallery = p.gallery
        /\ Last(p.gallery) \in p.gallery
    BY <1>1, ActiveFacts, ChosenPhotos DEF Knows, KnowsRemote, KnowsGallery, Gallery, Finish, Old, New,
       OldPhotos, Shows, Remembers, Photos
  <1>3. /\ UNCHANGED <<art, sold, used>> /\ shop'.gallery = shop.gallery /\ shop'.state = shop.state
        /\ rec' = [rec EXCEPT !.retained = rec'.retained]
        /\ Becomes(a, Raise(p)) \/ (Becomes(a, q) /\ TRUE)
    BY <1>1, <1>2, ActiveFacts DEF Unlink, Write, remote, Records, Listings
  <1>4. World'
    BY <1>1, <1>2, <1>3, ActiveFacts DEF World, Shows, Records, Listings, New
  <1>5. CASE Becomes(a, Raise(p))
    BY <1>1, <1>2, <1>3, <1>4, <1>5, ActiveFacts, ListingStep DEF Listings
  <1>6. CASE Becomes(a, q) /\ TRUE
    <2>1. /\ proc'[a].pc = "delete" /\ Same(p, proc'[a])
          /\ proc'[a].new = p.new /\ proc'[a].mocks = p.mocks /\ proc'[a].deact = p.deact /\ proc'[a].fulfil = p.fulfil /\ proc'[a].safe = p.safe
          /\ proc'[a].gallery = p.gallery /\ proc'[a].todo = p.gallery \ {Last(p.gallery)}
          /\ \A b \in Operators \ {a} : proc'[b] = proc[b]
      BY <1>1, <1>6, ActiveFacts DEF Becomes, Goes, Processes, Same
    <2>2. Identified(p)' /\ Remembers(p)' /\ Active(p)'
      BY <1>1, <1>2, <2>1, ActiveFacts DEF Identified, Remembers, Active, Waiting, ReplaceOnly,
         ReconcileOnly, Gallery, Finish, Same
    <2>3. Knows(p)'
      BY <1>1, <1>2, <1>3, <1>4, <1>6, <2>1, <2>2, ActiveFacts DEF Knows, KnowsRemote,
         KnowsGallery, Old, New, OldPhotos, Shows, Gallery, Finish, Same, Remembers
    <2>. QED BY <1>1, <1>3, <1>4, <2>1, <2>2, <2>3, ListingStep
  <1>. QED BY <1>3, <1>5, <1>6

(* The photo that is kept is never the one that is deleted. *)
LEMMA DeletePhotoKeeps ==
    ASSUME ReplacementInv, TypeOK', NEW a \in Operators, DeletePhoto(a)
    PROVE  ReplacementInv'
  <1>. DEFINE p == proc[a]
              q == [p EXCEPT !.todo = @ \ {Least(p.todo)}]
  <1>1. p.pc = "delete" /\ Active(p) /\ p.todo # {}
    BY DEF DeletePhoto, At, Active, Waiting
  <1>2. /\ New(p) /\ p.mocks /\ OldPhotos(p) /\ Last(p.gallery) \in shop.gallery
        /\ p.todo \subseteq p.gallery \ {Last(p.gallery)}
    BY <1>1, ActiveFacts DEF Knows, KnowsRemote, KnowsGallery, Gallery, Finish, Old, New,
       OldPhotos, Shows, Remembers
  <1>3. Least(p.todo) \in p.todo
    BY <1>1, <1>2, ChosenPhotos DEF OldPhotos, Photos
  <1>4. /\ UNCHANGED <<art, sold, used>> /\ shop'.state = shop.state
        /\ shop'.gallery \in {shop.gallery, shop.gallery \ {Least(p.todo)}}
        /\ rec' = [rec EXCEPT !.retained = rec'.retained]
        /\ Becomes(a, Raise(p)) \/ (Becomes(a, q) /\ TRUE)
    BY <1>1, <1>2, <1>3, ActiveFacts DEF DeletePhoto, AnnouncedWrite, Decide, Write, remote, Records, Listings
  <1>5. World'
    BY <1>1, <1>2, <1>3, <1>4, ActiveFacts DEF World, Shows, Records, Listings, New
  <1>6. CASE Becomes(a, Raise(p))
    BY <1>1, <1>2, <1>4, <1>5, <1>6, ActiveFacts, ListingStep DEF Listings
  <1>7. CASE Becomes(a, q) /\ TRUE
    <2>1. /\ proc'[a].pc = "delete" /\ Same(p, proc'[a])
          /\ proc'[a].new = p.new /\ proc'[a].mocks = p.mocks /\ proc'[a].deact = p.deact /\ proc'[a].fulfil = p.fulfil /\ proc'[a].safe = p.safe
          /\ proc'[a].gallery = p.gallery /\ proc'[a].todo = p.todo \ {Least(p.todo)}
          /\ \A b \in Operators \ {a} : proc'[b] = proc[b]
      BY <1>1, <1>7, ActiveFacts DEF Becomes, Goes, Processes, Same
    <2>2. Identified(p)' /\ Remembers(p)' /\ Active(p)'
      BY <1>1, <1>2, <2>1, ActiveFacts DEF Identified, Remembers, Active, Waiting, ReplaceOnly,
         ReconcileOnly, Gallery, Finish, Same
    <2>3. Knows(p)'
      BY <1>1, <1>2, <1>3, <1>4, <1>5, <1>7, <2>1, <2>2, ActiveFacts DEF Knows, KnowsRemote,
         KnowsGallery, Old, New, OldPhotos, Shows, Gallery, Finish, Same, Remembers
    <2>. QED BY <1>1, <1>4, <1>5, <2>1, <2>2, <2>3, ListingStep
  <1>. QED BY <1>4, <1>6, <1>7

(* The last published photo stays. *)
LEMMA KeepLastKeeps ==
    ASSUME ReplacementInv, TypeOK', NEW a \in Operators, KeepLast(a)
    PROVE  ReplacementInv'
  <1>. DEFINE p == proc[a]
              q == Goes(p, "first")
  <1>1. p.pc = "delete" /\ Active(p)
    BY DEF KeepLast, At, Active, Waiting
  <1>2. New(p) /\ p.mocks /\ OldPhotos(p) /\ Last(p.gallery) \in shop.gallery
    BY <1>1, ActiveFacts DEF Knows, KnowsRemote, KnowsGallery, Gallery, Finish, Old, New,
       OldPhotos, Shows, Remembers
  <1>3. /\ UNCHANGED <<art, sold, used>> /\ UNCHANGED shop
        /\ rec' = [rec EXCEPT !.retained = rec'.retained]
        /\ Becomes(a, Raise(p)) \/ (Becomes(a, q) /\ TRUE)
    BY <1>1, <1>2, ActiveFacts DEF KeepLast, DecideAndSave, remote, Records
  <1>4. World'
    BY <1>1, <1>2, <1>3, ActiveFacts DEF World, Shows, Records, Listings
  <1>5. CASE Becomes(a, Raise(p))
    BY <1>1, <1>2, <1>3, <1>4, <1>5, ActiveFacts, ListingStep DEF Listings
  <1>6. CASE Becomes(a, q) /\ TRUE
    <2>1. /\ proc'[a].pc = "first" /\ Same(p, proc'[a])
          /\ proc'[a].new = p.new /\ proc'[a].mocks = p.mocks /\ proc'[a].deact = p.deact /\ proc'[a].fulfil = p.fulfil /\ proc'[a].safe = p.safe
          /\ proc'[a].gallery = p.gallery
          /\ \A b \in Operators \ {a} : proc'[b] = proc[b]
      BY <1>1, <1>6, ActiveFacts DEF Becomes, Goes, Processes, Same
    <2>2. Identified(p)' /\ Remembers(p)' /\ Active(p)'
      BY <1>1, <1>2, <2>1, ActiveFacts DEF Identified, Remembers, Active, Waiting, ReplaceOnly,
         ReconcileOnly, Gallery, Finish, Same
    <2>3. Knows(p)'
      BY <1>1, <1>2, <1>3, <1>4, <1>6, <2>1, <2>2, ActiveFacts DEF Knows, KnowsRemote,
         KnowsGallery, Old, New, OldPhotos, Shows, Gallery, Finish, Same, Remembers
    <2>. QED BY <1>1, <1>3, <1>4, <2>1, <2>2, <2>3, ListingStep
  <1>. QED BY <1>3, <1>5, <1>6

(* The first new photo joins the retained one. *)
LEMMA UploadFirstKeeps ==
    ASSUME ReplacementInv, TypeOK', NEW a \in Operators, UploadFirst(a)
    PROVE  ReplacementInv'
  <1>. DEFINE p == proc[a]
              q == [Goes(p, "handoff") EXCEPT !.todo = Photos(p.new) \ {Least(Photos(p.new))}]
  <1>1. p.pc = "first" /\ Active(p)
    BY DEF UploadFirst, At, Active, Waiting
  <1>2. New(p) /\ p.mocks /\ OldPhotos(p) /\ Last(p.gallery) \in shop.gallery
    BY <1>1, ActiveFacts DEF Knows, KnowsRemote, KnowsGallery, Gallery, Finish, Old, New,
       OldPhotos, Shows, Remembers
  <1>3. /\ UNCHANGED <<art, sold, used>> /\ shop'.state = shop.state /\ shop.gallery \subseteq shop'.gallery
        /\ rec' = [rec EXCEPT !.retained = rec'.retained]
        /\ Becomes(a, Raise(p)) \/ (Becomes(a, q) /\ Least(Photos(p.new)) \in shop'.gallery)
    BY <1>1, <1>2, ActiveFacts DEF UploadFirst, AnnouncedWrite, Decide, Write, remote, Records, Listings
  <1>4. World'
    BY <1>1, <1>2, <1>3, ActiveFacts DEF World, Shows, Records, Listings, New
  <1>5. CASE Becomes(a, Raise(p))
    BY <1>1, <1>2, <1>3, <1>4, <1>5, ActiveFacts, ListingStep DEF Listings
  <1>6. CASE Becomes(a, q) /\ Least(Photos(p.new)) \in shop'.gallery
    <2>1. /\ proc'[a].pc = "handoff" /\ Same(p, proc'[a])
          /\ proc'[a].new = p.new /\ proc'[a].mocks = p.mocks /\ proc'[a].deact = p.deact /\ proc'[a].fulfil = p.fulfil /\ proc'[a].safe = p.safe
          /\ proc'[a].gallery = p.gallery /\ proc'[a].todo = Photos(p.new) \ {Least(Photos(p.new))}
          /\ \A b \in Operators \ {a} : proc'[b] = proc[b]
      BY <1>1, <1>6, ActiveFacts DEF Becomes, Goes, Processes, Same
    <2>2. Identified(p)' /\ Remembers(p)' /\ Active(p)'
      BY <1>1, <1>2, <2>1, ActiveFacts DEF Identified, Remembers, Active, Waiting, ReplaceOnly,
         ReconcileOnly, Gallery, Finish, Same
    <2>3. Knows(p)'
      BY <1>1, <1>2, <1>3, <1>4, <1>6, <2>1, <2>2, ActiveFacts DEF Knows, KnowsRemote,
         KnowsGallery, Old, New, OldPhotos, Shows, Gallery, Finish, Same, Remembers
    <2>. QED BY <1>1, <1>3, <1>4, <2>1, <2>2, <2>3, ListingStep
  <1>. QED BY <1>3, <1>5, <1>6

(* More new photos only add to the gallery. *)
LEMMA FillGalleryKeeps ==
    ASSUME ReplacementInv, TypeOK', NEW a \in Operators, FillGallery(a)
    PROVE  ReplacementInv'
  <1>. DEFINE p == proc[a]
              q == [p EXCEPT !.todo = @ \ {Least(p.todo)}]
  <1>1. p.pc = "fill" /\ Active(p)
    BY DEF FillGallery, At, Active, Waiting
  <1>2. New(p) /\ p.mocks /\ p.todo \subseteq Photos(p.new)
    BY <1>1, ActiveFacts DEF Knows, KnowsRemote, KnowsGallery, Gallery, Finish, Old, New,
       OldPhotos, Shows, Remembers
  <1>3. /\ UNCHANGED <<art, sold, used>> /\ shop'.state = shop.state /\ shop.gallery \subseteq shop'.gallery
        /\ rec' = [rec EXCEPT !.retained = rec'.retained]
        /\ Becomes(a, Raise(p)) \/ (Becomes(a, q) /\ TRUE)
    BY <1>1, <1>2, ActiveFacts DEF FillGallery, AnnouncedWrite, Decide, Write, remote, Records, Listings
  <1>4. World'
    BY <1>1, <1>2, <1>3, ActiveFacts DEF World, Shows, Records, Listings, New
  <1>5. CASE Becomes(a, Raise(p))
    BY <1>1, <1>2, <1>3, <1>4, <1>5, ActiveFacts, ListingStep DEF Listings
  <1>6. CASE Becomes(a, q) /\ TRUE
    <2>1. /\ proc'[a].pc = "fill" /\ Same(p, proc'[a])
          /\ proc'[a].new = p.new /\ proc'[a].mocks = p.mocks /\ proc'[a].deact = p.deact /\ proc'[a].fulfil = p.fulfil /\ proc'[a].safe = p.safe
          /\ proc'[a].todo = p.todo \ {Least(p.todo)}
          /\ \A b \in Operators \ {a} : proc'[b] = proc[b]
      BY <1>1, <1>6, ActiveFacts DEF Becomes, Goes, Processes, Same
    <2>2. Identified(p)' /\ Remembers(p)' /\ Active(p)'
      BY <1>1, <1>2, <2>1, ActiveFacts DEF Identified, Remembers, Active, Waiting, ReplaceOnly,
         ReconcileOnly, Gallery, Finish, Same
    <2>3. Knows(p)'
      BY <1>1, <1>2, <1>3, <1>4, <1>6, <2>1, <2>2, ActiveFacts DEF Knows, KnowsRemote,
         KnowsGallery, Old, New, OldPhotos, Shows, Gallery, Finish, Same, Remembers
    <2>. QED BY <1>1, <1>3, <1>4, <2>1, <2>2, <2>3, ListingStep
  <1>. QED BY <1>3, <1>5, <1>6

(* The gallery read back is the new one. *)
LEMMA GalleryFilledKeeps ==
    ASSUME ReplacementInv, TypeOK', NEW a \in Operators, GalleryFilled(a)
    PROVE  ReplacementInv'
  <1>. DEFINE p == proc[a]
              q == Goes(p, "relink")
  <1>1. p.pc = "fill" /\ Active(p)
    BY DEF GalleryFilled, At, Active, Waiting
  <1>2. New(p) /\ p.mocks
    BY <1>1, ActiveFacts DEF Knows, KnowsRemote, KnowsGallery, Gallery, Finish, Old, New,
       OldPhotos, Shows, Remembers
  <1>3. /\ UNCHANGED <<art, sold, used>> /\ UNCHANGED shop
        /\ rec' = [rec EXCEPT !.retained = rec'.retained]
        /\ Becomes(a, Raise(p)) \/ (Becomes(a, q) /\ shop.gallery = Photos(p.new))
    BY <1>1, <1>2, ActiveFacts DEF GalleryFilled, Decide, remote, Records
  <1>4. World'
    BY <1>1, <1>2, <1>3, ActiveFacts DEF World, Shows, Records, Listings
  <1>5. CASE Becomes(a, Raise(p))
    BY <1>1, <1>2, <1>3, <1>4, <1>5, ActiveFacts, ListingStep DEF Listings
  <1>6. CASE Becomes(a, q) /\ shop.gallery = Photos(p.new)
    <2>1. /\ proc'[a].pc = "relink" /\ Same(p, proc'[a])
          /\ proc'[a].new = p.new /\ proc'[a].mocks = p.mocks /\ proc'[a].deact = p.deact /\ proc'[a].fulfil = p.fulfil /\ proc'[a].safe = p.safe
          /\ \A b \in Operators \ {a} : proc'[b] = proc[b]
      BY <1>1, <1>6, ActiveFacts DEF Becomes, Goes, Processes, Same
    <2>2. Identified(p)' /\ Remembers(p)' /\ Active(p)'
      BY <1>1, <1>2, <2>1, ActiveFacts DEF Identified, Remembers, Active, Waiting, ReplaceOnly,
         ReconcileOnly, Gallery, Finish, Same
    <2>3. Knows(p)'
      BY <1>1, <1>2, <1>3, <1>4, <1>6, <2>1, <2>2, ActiveFacts DEF Knows, KnowsRemote,
         KnowsGallery, Old, New, OldPhotos, Shows, Gallery, Finish, Same, Remembers
    <2>. QED BY <1>1, <1>3, <1>4, <2>1, <2>2, <2>3, ListingStep
  <1>. QED BY <1>3, <1>5, <1>6

(* The new photos get their colour links. *)
LEMMA RelinkKeeps ==
    ASSUME ReplacementInv, TypeOK', NEW a \in Operators, Relink(a)
    PROVE  ReplacementInv'
  <1>. DEFINE p == proc[a]
              q == Goes(p, "approve")
  <1>1. p.pc = "relink" /\ Active(p)
    BY DEF Relink, At, Active, Waiting
  <1>2. New(p) /\ p.mocks /\ shop.gallery = Photos(p.new)
    BY <1>1, ActiveFacts DEF Knows, KnowsRemote, KnowsGallery, Gallery, Finish, Old, New,
       OldPhotos, Shows, Remembers
  <1>3. /\ UNCHANGED <<art, sold, used>> /\ shop'.gallery = shop.gallery /\ shop'.state = shop.state
        /\ rec' = [rec EXCEPT !.retained = rec'.retained]
        /\ Becomes(a, Raise(p)) \/ (Becomes(a, q) /\ TRUE)
    BY <1>1, <1>2, ActiveFacts DEF Relink, Write, remote, Records, Listings
  <1>4. World'
    BY <1>1, <1>2, <1>3, ActiveFacts DEF World, Shows, Records, Listings, New
  <1>5. CASE Becomes(a, Raise(p))
    BY <1>1, <1>2, <1>3, <1>4, <1>5, ActiveFacts, ListingStep DEF Listings
  <1>6. CASE Becomes(a, q) /\ TRUE
    <2>1. /\ proc'[a].pc = "approve" /\ Same(p, proc'[a])
          /\ proc'[a].new = p.new /\ proc'[a].mocks = p.mocks /\ proc'[a].deact = p.deact /\ proc'[a].fulfil = p.fulfil /\ proc'[a].safe = p.safe
          /\ \A b \in Operators \ {a} : proc'[b] = proc[b]
      BY <1>1, <1>6, ActiveFacts DEF Becomes, Goes, Processes, Same
    <2>2. Identified(p)' /\ Remembers(p)' /\ Active(p)'
      BY <1>1, <1>2, <2>1, ActiveFacts DEF Identified, Remembers, Active, Waiting, ReplaceOnly,
         ReconcileOnly, Gallery, Finish, Same
    <2>3. Knows(p)'
      BY <1>1, <1>2, <1>3, <1>4, <1>6, <2>1, <2>2, ActiveFacts DEF Knows, KnowsRemote,
         KnowsGallery, Old, New, OldPhotos, Shows, Gallery, Finish, Same, Remembers
    <2>. QED BY <1>1, <1>3, <1>4, <2>1, <2>2, <2>3, ListingStep
  <1>. QED BY <1>3, <1>5, <1>6

(* The listing that is activated shows the new artwork, as the product does. *)
LEMMA ActivateKeeps ==
    ASSUME ReplacementInv, TypeOK', NEW a \in Operators, Activate(a)
    PROVE  ReplacementInv'
  <1>. DEFINE p == proc[a]
              q == Goes(p, "confirm")
  <1>1. p.pc = "activate" /\ Active(p)
    BY DEF Activate, At, Active, Waiting
  <1>2. art = p.new /\ Shows(p.new)
    BY <1>1, ActiveFacts DEF Knows, KnowsRemote, KnowsGallery, Gallery, Finish, Old, New,
       OldPhotos, Shows, Remembers
  <1>3. /\ UNCHANGED <<art, sold, used>> /\ shop'.gallery = shop.gallery /\ shop'.links = shop.links
        /\ rec' = [rec EXCEPT !.retained = rec'.retained]
        /\ Becomes(a, Raise(p)) \/ (Becomes(a, q) /\ shop'.state = "active")
    BY <1>1, <1>2, ActiveFacts DEF Activate, Write, remote, Records, Listings
  <1>4. World'
    BY <1>1, <1>2, <1>3, ActiveFacts DEF World, Shows, Records, Listings
  <1>5. CASE Becomes(a, Raise(p))
    BY <1>1, <1>2, <1>3, <1>4, <1>5, ActiveFacts, ListingStep DEF Listings
  <1>6. CASE Becomes(a, q) /\ shop'.state = "active"
    <2>1. /\ proc'[a].pc = "confirm" /\ Same(p, proc'[a])
          /\ proc'[a].new = p.new /\ proc'[a].mocks = p.mocks /\ proc'[a].deact = p.deact /\ proc'[a].fulfil = p.fulfil /\ proc'[a].safe = p.safe
          /\ \A b \in Operators \ {a} : proc'[b] = proc[b]
      BY <1>1, <1>6, ActiveFacts DEF Becomes, Goes, Processes, Same
    <2>2. Identified(p)' /\ Remembers(p)' /\ Active(p)'
      BY <1>1, <1>2, <2>1, ActiveFacts DEF Identified, Remembers, Active, Waiting, ReplaceOnly,
         ReconcileOnly, Gallery, Finish, Same
    <2>3. Knows(p)'
      BY <1>1, <1>2, <1>3, <1>4, <1>6, <2>1, <2>2, ActiveFacts DEF Knows, KnowsRemote,
         KnowsGallery, Old, New, OldPhotos, Shows, Gallery, Finish, Same, Remembers
    <2>. QED BY <1>1, <1>3, <1>4, <2>1, <2>2, <2>3, ListingStep
  <1>. QED BY <1>3, <1>5, <1>6

(* Both sides are read again while the listing is active. *)
LEMMA ConfirmKeeps ==
    ASSUME ReplacementInv, TypeOK', NEW a \in Operators, Confirm(a)
    PROVE  ReplacementInv'
  <1>. DEFINE p == proc[a]
              q == Goes(p, "persist")
  <1>1. p.pc = "confirm" /\ Active(p)
    BY DEF Confirm, At, Active, Waiting
  <1>2. art = p.new /\ Shows(p.new) /\ shop.state = "active"
    BY <1>1, ActiveFacts DEF Knows, KnowsRemote, KnowsGallery, Gallery, Finish, Old, New,
       OldPhotos, Shows, Remembers
  <1>3. /\ UNCHANGED <<art, sold, used>> /\ UNCHANGED shop
        /\ rec' = [rec EXCEPT !.retained = rec'.retained]
        /\ Becomes(a, Raise(p)) \/ (Becomes(a, q) /\ TRUE)
    BY <1>1, <1>2, ActiveFacts DEF Confirm, DecideAndSave, remote, Records
  <1>4. World'
    BY <1>1, <1>2, <1>3, ActiveFacts DEF World, Shows, Records, Listings
  <1>5. CASE Becomes(a, Raise(p))
    BY <1>1, <1>2, <1>3, <1>4, <1>5, ActiveFacts, ListingStep DEF Listings
  <1>6. CASE Becomes(a, q) /\ TRUE
    <2>1. /\ proc'[a].pc = "persist" /\ Same(p, proc'[a])
          /\ proc'[a].new = p.new /\ proc'[a].mocks = p.mocks /\ proc'[a].deact = p.deact /\ proc'[a].fulfil = p.fulfil /\ proc'[a].safe = p.safe
          /\ \A b \in Operators \ {a} : proc'[b] = proc[b]
      BY <1>1, <1>6, ActiveFacts DEF Becomes, Goes, Processes, Same
    <2>2. Identified(p)' /\ Remembers(p)' /\ Active(p)'
      BY <1>1, <1>2, <2>1, ActiveFacts DEF Identified, Remembers, Active, Waiting, ReplaceOnly,
         ReconcileOnly, Gallery, Finish, Same
    <2>3. Knows(p)'
      BY <1>1, <1>2, <1>3, <1>4, <1>6, <2>1, <2>2, ActiveFacts DEF Knows, KnowsRemote,
         KnowsGallery, Old, New, OldPhotos, Shows, Gallery, Finish, Same, Remembers
    <2>. QED BY <1>1, <1>3, <1>4, <2>1, <2>2, <2>3, ListingStep
  <1>. QED BY <1>3, <1>5, <1>6

(* A reconciliation that found nothing changed activates the published listing. *)
LEMMA ReactivateKeeps ==
    ASSUME ReplacementInv, TypeOK', NEW a \in Operators, Reactivate(a)
    PROVE  ReplacementInv'
  <1>. DEFINE p == proc[a]
              q == Goes(p, "reverify")
  <1>1. p.pc = "reactivate" /\ Active(p)
    BY DEF Reactivate, At, Active, Waiting
  <1>2. Old(p)
    BY <1>1, ActiveFacts DEF Knows, KnowsRemote, KnowsGallery, Gallery, Finish, Old, New,
       OldPhotos, Shows, Remembers
  <1>3. /\ UNCHANGED <<art, sold, used>> /\ shop'.gallery = shop.gallery /\ shop'.links = shop.links
        /\ rec' = [rec EXCEPT !.retained = rec'.retained]
        /\ Becomes(a, Raise(p)) \/ (Becomes(a, q) /\ shop'.state = "active")
    BY <1>1, <1>2, ActiveFacts DEF Reactivate, Write, remote, Records, Listings
  <1>4. World'
    BY <1>1, <1>2, <1>3, ActiveFacts DEF World, Shows, Records, Listings, Old
  <1>5. CASE Becomes(a, Raise(p))
    BY <1>1, <1>2, <1>3, <1>4, <1>5, ActiveFacts, ListingStep DEF Listings
  <1>6. CASE Becomes(a, q) /\ shop'.state = "active"
    <2>1. /\ proc'[a].pc = "reverify" /\ Same(p, proc'[a])
          /\ proc'[a].new = p.new /\ proc'[a].mocks = p.mocks /\ proc'[a].deact = p.deact /\ proc'[a].fulfil = p.fulfil /\ proc'[a].safe = p.safe
          /\ \A b \in Operators \ {a} : proc'[b] = proc[b]
      BY <1>1, <1>6, ActiveFacts DEF Becomes, Goes, Processes, Same
    <2>2. Identified(p)' /\ Remembers(p)' /\ Active(p)'
      BY <1>1, <1>2, <2>1, ActiveFacts DEF Identified, Remembers, Active, Waiting, ReplaceOnly,
         ReconcileOnly, Gallery, Finish, Same
    <2>3. Knows(p)'
      BY <1>1, <1>2, <1>3, <1>4, <1>6, <2>1, <2>2, ActiveFacts DEF Knows, KnowsRemote,
         KnowsGallery, Old, New, OldPhotos, Shows, Gallery, Finish, Same, Remembers
    <2>. QED BY <1>1, <1>3, <1>4, <2>1, <2>2, <2>3, ListingStep
  <1>. QED BY <1>3, <1>5, <1>6

(* It reads both sides again. *)
LEMMA ReverifyKeeps ==
    ASSUME ReplacementInv, TypeOK', NEW a \in Operators, Reverify(a)
    PROVE  ReplacementInv'
  <1>. DEFINE p == proc[a]
              q == Goes(p, "drop")
  <1>1. p.pc = "reverify" /\ Active(p)
    BY DEF Reverify, At, Active, Waiting
  <1>2. Old(p) /\ shop.state = "active"
    BY <1>1, ActiveFacts DEF Knows, KnowsRemote, KnowsGallery, Gallery, Finish, Old, New,
       OldPhotos, Shows, Remembers
  <1>3. /\ UNCHANGED <<art, sold, used>> /\ UNCHANGED shop
        /\ rec' = [rec EXCEPT !.retained = rec'.retained]
        /\ Becomes(a, Raise(p)) \/ (Becomes(a, q) /\ TRUE)
    BY <1>1, <1>2, ActiveFacts DEF Reverify, Decide, remote, Records
  <1>4. World'
    BY <1>1, <1>2, <1>3, ActiveFacts DEF World, Shows, Records, Listings
  <1>5. CASE Becomes(a, Raise(p))
    BY <1>1, <1>2, <1>3, <1>4, <1>5, ActiveFacts, ListingStep DEF Listings
  <1>6. CASE Becomes(a, q) /\ TRUE
    <2>1. /\ proc'[a].pc = "drop" /\ Same(p, proc'[a])
          /\ proc'[a].new = p.new /\ proc'[a].mocks = p.mocks /\ proc'[a].deact = p.deact /\ proc'[a].fulfil = p.fulfil /\ proc'[a].safe = p.safe
          /\ \A b \in Operators \ {a} : proc'[b] = proc[b]
      BY <1>1, <1>6, ActiveFacts DEF Becomes, Goes, Processes, Same
    <2>2. Identified(p)' /\ Remembers(p)' /\ Active(p)'
      BY <1>1, <1>2, <2>1, ActiveFacts DEF Identified, Remembers, Active, Waiting, ReplaceOnly,
         ReconcileOnly, Gallery, Finish, Same
    <2>3. Knows(p)'
      BY <1>1, <1>2, <1>3, <1>4, <1>6, <2>1, <2>2, ActiveFacts DEF Knows, KnowsRemote,
         KnowsGallery, Old, New, OldPhotos, Shows, Gallery, Finish, Same, Remembers
    <2>. QED BY <1>1, <1>3, <1>4, <2>1, <2>2, <2>3, ListingStep
  <1>. QED BY <1>3, <1>5, <1>6

(* The retained photo is deleted only once a new one is beside it. *)
LEMMA HandOffKeeps ==
    ASSUME ReplacementInv, TypeOK', NEW a \in Operators, HandOff(a)
    PROVE  ReplacementInv'
  <1>. DEFINE p == proc[a]
              q == [Goes(p, "fill") EXCEPT !.gallery = {}]
              i == Least(Photos(p.new))
  <1>1. p.pc = "handoff" /\ Active(p)
    BY DEF HandOff, At, Active, Waiting
  <1>2. /\ New(p) /\ p.mocks /\ OldPhotos(p) /\ i \in shop.gallery
        /\ p.todo \subseteq Photos(p.new) /\ p.new # p.upload
    <2>1. p.new # p.upload
      BY <1>1, ActiveFacts DEF Remembers, Gallery
    <2>. QED BY <1>1, <2>1, ActiveFacts DEF Knows, KnowsRemote, KnowsGallery, Gallery
  <1>3. i # Last(p.gallery)
    <2>1. Last(p.gallery) \in Photos(p.upload)
      BY <1>2, ChosenPhotos DEF OldPhotos, Photos
    <2>. QED BY <1>2, <2>1, PhotosNonempty, PhotosDiffer
  <1>4. /\ UNCHANGED <<art, sold, used>> /\ shop'.state = shop.state /\ i \in shop'.gallery
        /\ rec' = [rec EXCEPT !.retained = rec'.retained]
        /\ Becomes(a, Raise(p)) \/ Becomes(a, q)
    BY <1>1, <1>2, <1>3, ActiveFacts DEF HandOff, AnnouncedWrite, Decide, Write, remote, Records, Listings
  <1>5. World'
    BY <1>1, <1>2, <1>4, ActiveFacts DEF World, Records, New
  <1>6. CASE Becomes(a, Raise(p))
    BY <1>1, <1>2, <1>4, <1>5, <1>6, ActiveFacts, ListingStep DEF Listings
  <1>7. CASE Becomes(a, q)
    <2>1. /\ proc'[a].pc = "fill" /\ Same(p, proc'[a])
          /\ proc'[a].new = p.new /\ proc'[a].mocks = p.mocks /\ proc'[a].deact = p.deact
          /\ proc'[a].fulfil = p.fulfil /\ proc'[a].safe = p.safe /\ proc'[a].todo = p.todo
          /\ \A b \in Operators \ {a} : proc'[b] = proc[b]
      BY <1>1, <1>7, ActiveFacts DEF Becomes, Goes, Processes, Same
    <2>2. Identified(p)' /\ Remembers(p)' /\ Active(p)'
      BY <1>1, <1>2, <2>1, ActiveFacts DEF Identified, Remembers, Active, Waiting, ReplaceOnly,
         ReconcileOnly, Gallery, Finish, Same
    <2>3. Knows(p)'
      BY <1>1, <1>2, <1>4, <2>1, <2>2 DEF Knows, KnowsRemote,
         KnowsGallery, New, Gallery, Finish, Same, Remembers
    <2>. QED BY <1>1, <1>4, <1>5, <2>1, <2>2, <2>3, ListingStep
  <1>. QED BY <1>4, <1>6, <1>7

(* Only a complete new gallery is approved; an order still stops it. *)
LEMMA ApproveKeeps ==
    ASSUME ReplacementInv, TypeOK', NEW a \in Operators, Approve(a)
    PROVE  ReplacementInv'
  <1>. DEFINE p == proc[a]
              q == Goes(p, "activate")
  <1>1. p.pc = "approve" /\ Active(p)
    BY DEF Approve, At, Active, Waiting
  <1>2. New(p)
    BY <1>1, ActiveFacts DEF Knows, KnowsRemote, Gallery
  <1>3. /\ UNCHANGED <<art, sold, shop, used>> /\ rec' = [rec EXCEPT !.retained = rec'.retained]
        /\ Becomes(a, Raise(p)) \/ (Becomes(a, q) /\ Shows(p.new))
    BY <1>1, ActiveFacts DEF Approve, DecideAndSave, remote, Records, Ordered
  <1>4. World'
    BY <1>1, <1>3, ActiveFacts DEF World, Shows, Records
  <1>5. CASE Becomes(a, Raise(p))
    BY <1>1, <1>3, <1>4, <1>5, ListingStep
  <1>6. CASE Becomes(a, q) /\ Shows(p.new)
    <2>1. /\ proc'[a].pc = "activate" /\ Same(p, proc'[a])
          /\ proc'[a].new = p.new /\ proc'[a].mocks = p.mocks /\ proc'[a].deact = p.deact
          /\ proc'[a].fulfil = p.fulfil /\ proc'[a].safe = p.safe
          /\ \A b \in Operators \ {a} : proc'[b] = proc[b]
      BY <1>1, <1>6, ActiveFacts DEF Becomes, Goes, Processes, Same
    <2>2. Identified(p)' /\ Remembers(p)' /\ Active(p)'
      BY <1>1, <2>1, ActiveFacts DEF Identified, Remembers, Active, Waiting, ReplaceOnly,
         ReconcileOnly, Gallery, Finish, Same
    <2>3. Knows(p)'
      BY <1>1, <1>2, <1>3, <1>6, <2>1, <2>2 DEF Knows, KnowsRemote, KnowsGallery, New, Shows,
         Gallery, Finish, Same, Remembers
    <2>. QED BY <1>1, <1>3, <1>4, <2>1, <2>2, <2>3, ListingStep
  <1>. QED BY <1>3, <1>5, <1>6

(* A reconciliation resumes from the published gallery or its last photo. *)
LEMMA ResumeKeeps ==
    ASSUME ReplacementInv, TypeOK', NEW a \in Operators, Resume(a)
    PROVE  ReplacementInv'
  <1>. DEFINE p == proc[a]
              q == Goes(p, "barrier")
  <1>1. p.pc = "resume" /\ Active(p)
    BY DEF Resume, At, Active, Waiting
  <1>2. New(p) /\ p.mocks /\ OldPhotos(p) /\ p.kind = "reconcile" /\ p.new # 0
    BY <1>1, ActiveFacts DEF Knows, KnowsRemote, KnowsGallery, Identified, ReconcileOnly, Remembers
  <1>3. /\ UNCHANGED <<art, sold, shop, used>> /\ rec' = [rec EXCEPT !.retained = rec'.retained]
        /\ Becomes(a, Raise(p)) \/ Becomes(a, q)
    BY <1>1, ActiveFacts DEF Resume, DecideAndSave, remote, Records, Ordered, Prints, Identity
  <1>4. World'
    BY <1>1, <1>3, ActiveFacts DEF World, Shows, Records
  <1>5. CASE Becomes(a, Raise(p))
    BY <1>1, <1>3, <1>4, <1>5, ListingStep
  <1>6. CASE Becomes(a, q)
    <2>1. /\ proc'[a].pc = "barrier" /\ Same(p, proc'[a])
          /\ proc'[a].new = p.new /\ proc'[a].mocks = p.mocks /\ proc'[a].deact = p.deact
          /\ proc'[a].fulfil = p.fulfil /\ proc'[a].safe = p.safe /\ proc'[a].gallery = p.gallery
          /\ \A b \in Operators \ {a} : proc'[b] = proc[b]
      BY <1>1, <1>6, ActiveFacts DEF Becomes, Goes, Processes, Same
    <2>2. Identified(p)' /\ Remembers(p)' /\ Active(p)'
      BY <1>1, <1>2, <2>1, ActiveFacts DEF Identified, Remembers, Active, Waiting, ReplaceOnly,
         ReconcileOnly, Gallery, Finish, Same
    <2>3. Knows(p)'
      BY <1>1, <1>2, <1>3, <2>1, <2>2 DEF Knows, KnowsRemote, KnowsGallery, New, OldPhotos,
         Gallery, Finish, Same, Remembers
    <2>. QED BY <1>1, <1>3, <1>4, <2>1, <2>2, <2>3, ListingStep
  <1>. QED BY <1>3, <1>5, <1>6

(* An inspection goes on only from one of the two states it can finish. *)
LEMMA InspectKeeps ==
    ASSUME ReplacementInv, TypeOK', NEW a \in Operators, Inspect(a)
    PROVE  ReplacementInv'
  <1>. DEFINE p == proc[a]
              r == Goes(p, "reactivate")
              s == [Goes(p, "resume") EXCEPT !.gallery = shop.gallery, !.links = shop.links]
  <1>1. p.pc = "inspect" /\ Active(p)
    BY DEF Inspect, At, Active, Waiting
  <1>2. p.kind = "reconcile"
    BY <1>1, ActiveFacts DEF Identified, ReconcileOnly
  <1>3. /\ UNCHANGED <<art, sold, shop, used>> /\ rec' = [rec EXCEPT !.retained = rec'.retained]
        /\ Becomes(a, Raise(p)) \/ (Becomes(a, r) /\ Untouched(p)) \/ (Becomes(a, s) /\ Resumable(p))
    BY <1>1, ActiveFacts DEF Inspect, Decide, remote, Records
  <1>4. World'
    BY <1>1, <1>3, ActiveFacts DEF World, Shows, Records
  <1>5. CASE Becomes(a, Raise(p))
    BY <1>1, <1>3, <1>4, <1>5, ListingStep
  <1>6. CASE Becomes(a, r) /\ Untouched(p)
    <2>1. /\ proc'[a].pc = "reactivate" /\ Same(p, proc'[a])
          /\ proc'[a].new = p.new /\ proc'[a].mocks = p.mocks /\ proc'[a].deact = p.deact
          /\ proc'[a].fulfil = p.fulfil /\ proc'[a].safe = p.safe
          /\ \A b \in Operators \ {a} : proc'[b] = proc[b]
      BY <1>1, <1>6, ActiveFacts DEF Becomes, Goes, Processes, Same
    <2>2. Identified(p)' /\ Remembers(p)' /\ Active(p)'
      BY <1>1, <1>2, <2>1, ActiveFacts DEF Identified, Remembers, Active, Waiting, ReplaceOnly,
         ReconcileOnly, Gallery, Finish, Same
    <2>3. Old(p)
      BY <1>6 DEF Untouched, ExactOld, Prints, Old
    <2>4. Knows(p)'
      BY <1>3, <2>1, <2>2, <2>3 DEF Knows, KnowsRemote, KnowsGallery, Old, Shows,
         Gallery, Finish, Same, Remembers
    <2>. QED BY <1>1, <1>3, <1>4, <2>1, <2>2, <2>4, ListingStep
  <1>7. CASE Becomes(a, s) /\ Resumable(p)
    <2>1. /\ proc'[a].pc = "resume" /\ Same(p, proc'[a])
          /\ proc'[a].new = p.new /\ proc'[a].mocks = p.mocks /\ proc'[a].deact = p.deact
          /\ proc'[a].fulfil = p.fulfil /\ proc'[a].safe = p.safe
          /\ proc'[a].gallery = shop.gallery
          /\ \A b \in Operators \ {a} : proc'[b] = proc[b]
      BY <1>1, <1>7, ActiveFacts DEF Becomes, Goes, Processes, Same
    <2>2. New(p) /\ p.mocks /\ p.new # 0
      BY <1>7 DEF Resumable, Prints, Ordered, New
    <2>3. shop.gallery # {} /\ shop.gallery \subseteq Photos(p.upload)
      <3>1. p.retained # None => p.retained \in Colors
        BY <1>1, ActiveFacts DEF Processes, Colors, None
      <3>. QED BY <1>1, <1>7, <3>1, ActiveFacts DEF Resumable, Shows, SentinelOnly, Photos, World
    <2>4. Identified(p)' /\ Remembers(p)' /\ Active(p)'
      BY <1>1, <1>2, <2>1, <2>2, ActiveFacts DEF Identified, Remembers, Active, Waiting, ReplaceOnly,
         ReconcileOnly, Gallery, Finish, Same
    <2>5. Knows(p)'
      BY <1>3, <2>1, <2>2, <2>3, <2>4 DEF Knows, KnowsRemote, KnowsGallery, New, OldPhotos,
         Gallery, Finish, Same, Remembers
    <2>. QED BY <1>1, <1>3, <1>4, <2>1, <2>4, <2>5, ListingStep
  <1>. QED BY <1>3, <1>5, <1>6, <1>7

(* A remote failure changes nothing else. *)
LEMMA RemoteFailsKeeps ==
    ASSUME ReplacementInv, TypeOK', NEW a \in Operators, Active(proc[a]), RemoteFails(a)
    PROVE  ReplacementInv'
  <1>1. proc[a].pc \notin {"silence", "record", "restore", "restored"}
    BY DEF RemoteFails, Reading
  <1>2. UNCHANGED <<art, shop, sold, used, rec>> /\ Becomes(a, Raise(proc[a]))
    BY DEF RemoteFails, Decide, remote
  <1>3. World' /\ rec' = [rec EXCEPT !.retained = rec'.retained]
    BY <1>2, ActiveFacts DEF World, Shows, Records
  <1>. QED BY <1>1, <1>2, <1>3, ListingStep

(* The upload's id is new, and so is the artwork the checkpoint names. *)
LEMMA UploadKeeps ==
    ASSUME ReplacementInv, TypeOK', NEW a \in Operators, Upload(a)
    PROVE  ReplacementInv'
  <1>. DEFINE p == proc[a]
              q == [Goes(p, "deactivate") EXCEPT !.new = p.id, !.deact = TRUE]
  <1>1. p.pc = "upload" /\ Active(p)
    BY DEF Upload, At, Active, Waiting
  <1>2. /\ Old(p) /\ shop.state = "active" /\ p.kind = "replace" /\ ~p.fulfil
        /\ p.upload < p.id /\ p.id # 0 /\ p.upload \in Nat /\ p.id \in Nat
    BY <1>1, ActiveFacts DEF Knows, KnowsRemote, Identified, Remembers, ReplaceOnly, None,
       Processes, Artworks
  <1>3. UNCHANGED <<art, sold, shop, used>> /\ rec' = [rec EXCEPT !.new = p.id] /\ Becomes(a, q)
    BY <1>1, ActiveFacts DEF Upload, DecideAndSave, remote
  <1>4. /\ rec'.run = rec.run /\ rec'.upload = rec.upload /\ rec'.status = rec.status
        /\ rec'.op = rec.op /\ rec'.attempt = rec.attempt /\ rec'.new = p.id
        /\ rec'.mocks = rec.mocks /\ rec'.stale = rec.stale
    BY <1>1, <1>3, ActiveFacts DEF Records
  <1>5. /\ proc'[a].pc = "deactivate" /\ Same(p, proc'[a])
        /\ proc'[a].new = p.id /\ proc'[a].mocks = p.mocks /\ proc'[a].deact
        /\ proc'[a].fulfil = p.fulfil /\ proc'[a].safe = p.safe
        /\ \A b \in Operators \ {a} : proc'[b] = proc[b]
    BY <1>1, <1>3, ActiveFacts DEF Becomes, Goes, Processes, Same
  <1>6. World' /\ SoldAsPrinted'
    <2>1. rec.upload = p.upload
      BY <1>1, ActiveFacts DEF Holds, Agrees
    <2>. QED BY <1>1, <1>2, <1>3, <1>4, <2>1, ActiveFacts DEF World, Shows, ReplacementInv, SoldAsPrinted
  <1>7. Sound(p)' /\ Active(p)'
    <2>1. Identified(p)' /\ Remembers(p)' /\ Active(p)'
      BY <1>1, <1>2, <1>5, ActiveFacts DEF Identified, Remembers, Active, Waiting, ReplaceOnly,
         ReconcileOnly, Gallery, Finish, Same
    <2>. QED BY <2>1 DEF Sound, TypeOK
  <1>8. Holds(p)'
    BY <1>1, <1>4, <1>5, ActiveFacts DEF Holds, Agrees, Same
  <1>9. Knows(p)'
    BY <1>1, <1>2, <1>3, <1>5, <1>7 DEF Knows, KnowsRemote, KnowsGallery, Old, Shows,
       Gallery, Finish, Same, Sound, Remembers
  <1>. QED BY <1>1, <1>2, <1>3, <1>4, <1>5, <1>6, <1>7, <1>8, <1>9, OwnStep

(* The mockups are retained in the checkpoint once they show the new artwork. *)
LEMMA RenderedKeeps ==
    ASSUME ReplacementInv, TypeOK', NEW a \in Operators, Rendered(a)
    PROVE  ReplacementInv'
  <1>. DEFINE p == proc[a]
              q == [Goes(p, "pregallery") EXCEPT !.mocks = TRUE, !.polls = 0]
  <1>1. p.pc = "render" /\ Active(p)
    BY DEF Rendered, At, Active, Waiting
  <1>2. New(p) /\ p.kind = "replace"
    BY <1>1, ActiveFacts DEF Knows, KnowsRemote, Identified, ReplaceOnly
  <1>3. /\ UNCHANGED <<art, sold, shop, used>>
        /\ (rec' = rec /\ Becomes(a, Raise(p))) \/ (rec' = [rec EXCEPT !.mocks = TRUE] /\ Becomes(a, q))
    BY <1>1, ActiveFacts DEF Rendered, DecideAndSave, remote
  <1>4. World' /\ SoldAsPrinted'
    BY <1>1, <1>2, <1>3, ActiveFacts DEF World, New, ReplacementInv, SoldAsPrinted, Records
  <1>5. CASE rec' = rec /\ Becomes(a, Raise(p))
    <2>1. rec' = [rec EXCEPT !.retained = rec'.retained]
      BY <1>1, <1>5, ActiveFacts DEF Records
    <2>. QED BY <1>1, <1>3, <1>4, <1>5, <2>1, ListingStep
  <1>6. CASE rec' = [rec EXCEPT !.mocks = TRUE] /\ Becomes(a, q)
    <2>1. /\ rec'.run = rec.run /\ rec'.upload = rec.upload /\ rec'.status = rec.status
          /\ rec'.op = rec.op /\ rec'.attempt = rec.attempt /\ rec'.new = rec.new
          /\ rec'.mocks /\ rec'.stale = rec.stale
      BY <1>1, <1>6, ActiveFacts DEF Records
    <2>2. /\ proc'[a].pc = "pregallery" /\ Same(p, proc'[a])
          /\ proc'[a].new = p.new /\ proc'[a].mocks /\ proc'[a].deact = p.deact
          /\ proc'[a].fulfil = p.fulfil /\ proc'[a].safe = p.safe
          /\ \A b \in Operators \ {a} : proc'[b] = proc[b]
      BY <1>1, <1>6, ActiveFacts DEF Becomes, Goes, Processes, Same
    <2>3. Sound(p)' /\ Active(p)'
      <3>1. Identified(p)' /\ Remembers(p)' /\ Active(p)'
        BY <1>1, <1>2, <2>2, ActiveFacts DEF Identified, Remembers, Active, Waiting, ReplaceOnly,
           ReconcileOnly, Gallery, Finish, Same
      <3>. QED BY <3>1 DEF Sound, TypeOK
    <2>4. Holds(p)'
      <3>1. proc'[a].mocks = rec'.mocks
        BY <1>6, <2>2, <1>1, ActiveFacts DEF Records, Becomes, Processes, Goes
      <3>. QED BY <1>1, <2>1, <2>2, <3>1, ActiveFacts DEF Holds, Agrees, Same
    <2>5. Knows(p)'
      BY <1>1, <1>2, <1>3, <2>2, <2>3 DEF Knows, KnowsRemote, KnowsGallery, New,
         Gallery, Finish, Same, Sound, Remembers
    <2>. QED BY <1>1, <1>2, <1>3, <1>4, <2>1, <2>2, <2>3, <2>4, <2>5, OwnStep
  <1>. QED BY <1>3, <1>5, <1>6

(* The print areas change while the listing is inactive and nobody has       *)
(* bought; a refusal that a read proves leads back to the published listing. *)
LEMMA PrintAreasKeeps ==
    ASSUME ReplacementInv, TypeOK', NEW a \in Operators, PrintAreas(a)
    PROVE  ReplacementInv'
  <1>. DEFINE p == proc[a]
              q == Goes(p, "render")
              r == Raise([p EXCEPT !.fulfil = FALSE])
  <1>1. p.pc = "print" /\ Active(p)
    BY DEF PrintAreas, At, Active, Waiting
  <1>2. /\ Old(p) /\ shop.state = "inactive" /\ sold = {} /\ p.kind = "replace"
        /\ p.deact /\ p.fulfil /\ p.new # 0 /\ ~p.safe /\ p.op # None
    BY <1>1, ActiveFacts DEF Knows, KnowsRemote, Identified, Remembers, ReplaceOnly, Active
  <1>3. /\ UNCHANGED <<sold, shop, used, rec>>
        /\ \/ Becomes(a, q) /\ art' = p.new
           \/ Becomes(a, Raise(p))
           \/ Becomes(a, r) /\ art' = p.upload
    BY <1>1, ActiveFacts DEF PrintAreas
  <1>4. World' /\ SoldAsPrinted' /\ rec' = [rec EXCEPT !.retained = rec'.retained]
    BY <1>1, <1>2, <1>3, ActiveFacts DEF World, SoldAsPrinted, Records
  <1>5. CASE Becomes(a, Raise(p))
    BY <1>1, <1>3, <1>4, <1>5, RaiseStep
  <1>6. CASE Becomes(a, q) /\ art' = p.new
    <2>1. /\ proc'[a].pc = "render" /\ Same(p, proc'[a])
          /\ proc'[a].new = p.new /\ proc'[a].mocks = p.mocks /\ proc'[a].deact = p.deact
          /\ proc'[a].fulfil = p.fulfil /\ proc'[a].safe = p.safe
          /\ \A b \in Operators \ {a} : proc'[b] = proc[b]
      BY <1>1, <1>6, ActiveFacts DEF Becomes, Goes, Processes, Same
    <2>2. Sound(p)' /\ Active(p)'
      <3>1. Identified(p)' /\ Remembers(p)' /\ Active(p)'
        BY <1>1, <1>2, <2>1, ActiveFacts DEF Identified, Remembers, Active, Waiting, ReplaceOnly,
           ReconcileOnly, Gallery, Finish, Same
      <3>. QED BY <3>1 DEF Sound, TypeOK
    <2>3. Holds(p)'
      BY <1>1, <1>3, <2>1, ActiveFacts DEF Holds, Agrees, Same
    <2>4. Knows(p)'
      BY <1>2, <1>3, <1>6, <2>1, <2>2 DEF Knows, KnowsRemote, KnowsGallery, New,
         Gallery, Finish, Same, Sound, Remembers
    <2>. QED BY <1>1, <1>2, <1>3, <1>4, <2>1, <2>2, <2>3, <2>4, OwnStep
  <1>7. CASE Becomes(a, r) /\ art' = p.upload
    <2>. DEFINE q0 == [p EXCEPT !.fulfil = FALSE]
                r0 == [q0 EXCEPT !.todo = {}, !.gallery = {}, !.links = {}, !.polls = 0, !.pc = "restore"]
    <2>1. /\ q0 \in Processes /\ Same(p, q0) /\ q0.new = p.new /\ q0.mocks = p.mocks
          /\ q0.deact /\ ~q0.fulfil /\ ~q0.safe
      <3>1. p \in Processes
        BY <1>1, ActiveFacts
      <3>2. q0 \in Processes
        BY <3>1 DEF Processes
      <3>. QED BY <1>2, <3>1, <3>2 DEF Processes, Same
    <2>. HIDE DEF q0
    <2>2. Raise(q0) = r0
      BY <1>2, <2>1 DEF Raise, Same
    <2>3. /\ r0.pc = "restore" /\ Same(p, r0) /\ r0.new = p.new /\ r0.mocks = p.mocks
          /\ r0.deact /\ ~r0.fulfil /\ ~r0.safe
      BY <2>1 DEF Processes, Same
    <2>4. proc'[a] = r0 /\ \A b \in Operators \ {a} : proc'[b] = proc[b]
      BY <1>1, <1>7, <2>2, ActiveFacts DEF Becomes, q0
    <2>. HIDE DEF r0
    <2>5. Sound(p)' /\ Active(p)'
      <3>1. Identified(p)' /\ Remembers(p)' /\ Active(p)'
        BY <1>1, <1>2, <2>3, <2>4, ActiveFacts DEF Identified, Remembers, Active, Waiting, ReplaceOnly,
           ReconcileOnly, Gallery, Finish, Same
      <3>. QED BY <3>1 DEF Sound, TypeOK
    <2>6. Holds(p)'
      BY <1>1, <1>3, <2>3, <2>4, ActiveFacts DEF Holds, Agrees, Same
    <2>7. Knows(p)'
      BY <1>2, <1>3, <1>7, <2>3, <2>4 DEF Knows, KnowsRemote, KnowsGallery, Old, Shows,
         Gallery, Finish, Same
    <2>. QED BY <1>1, <1>2, <1>3, <1>4, <2>3, <2>4, <2>5, <2>6, <2>7, OwnStep
  <1>. QED BY <1>3, <1>5, <1>6, <1>7

(* _persist_success: the run is published with the new artwork. *)
LEMMA PersistKeeps ==
    ASSUME ReplacementInv, TypeOK', NEW a \in Operators, Persist(a)
    PROVE  ReplacementInv'
  <1>. DEFINE p == proc[a]
  <1>1. p.pc = "persist" /\ Active(p)
    BY DEF Persist, At, Active, Waiting
  <1>2. Owns(p)
    BY <1>1, ActiveFacts DEF Owns, Holds, Agrees, Identified, Active, Waiting
  <1>3. /\ UNCHANGED <<art, sold, shop, used>> /\ Becomes(a, Idle)
        /\ rec' = [rec EXCEPT !.status = "completed", !.run = "published",
                              !.upload = p.new, !.new = p.new, !.stale = FALSE]
    BY <1>2 DEF Persist, remote
  <1>4. /\ rec'.run = "published" /\ rec'.upload = p.new /\ rec'.op = rec.op
        /\ rec'.attempt = rec.attempt
    BY <1>1, <1>3, ActiveFacts DEF Records
  <1>5. art = p.new /\ Shows(p.new) /\ shop.state = "active"
    BY <1>1, ActiveFacts DEF Knows, KnowsRemote, Finish
  <1>6. World' /\ SoldAsPrinted' /\ PublishedIsLive'
    BY <1>1, <1>3, <1>4, <1>5, ActiveFacts DEF World, PublishedIsLive, SoldAsPrinted, Shows, ReplacementInv
  <1>7. p.new <= used /\ rec'.new = rec.new
    <2>1. p.new = rec.new
      BY <1>1, ActiveFacts DEF Holds, Agrees
    <2>. QED BY <2>1, <1>1, <1>3, ActiveFacts DEF ReplacementInv, Numbered, Records
  <1>8. proc'[a] = Idle /\ \A b \in Operators \ {a} : proc'[b] = proc[b]
    BY <1>1, <1>3, ActiveFacts DEF Becomes
  <1>. QED BY <1>1, <1>3, <1>4, <1>6, <1>7, <1>8, OwnEnd

(* _persist_reconciled_abort: the run is published as it was. *)
LEMMA DropKeeps ==
    ASSUME ReplacementInv, TypeOK', NEW a \in Operators, Drop(a)
    PROVE  ReplacementInv'
  <1>. DEFINE p == proc[a]
  <1>1. p.pc = "drop" /\ Active(p)
    BY DEF Drop, At, Active, Waiting
  <1>2. Owns(p)
    BY <1>1, ActiveFacts DEF Owns, Holds, Agrees, Identified, ReconcileOnly
  <1>3. /\ UNCHANGED <<art, sold, shop, used>> /\ Becomes(a, Idle)
        /\ rec' = [rec EXCEPT !.status = "aborted", !.run = "published", !.stale = FALSE]
    BY <1>2 DEF Drop, remote
  <1>4. /\ rec'.run = "published" /\ rec'.upload = rec.upload /\ rec'.op = rec.op
        /\ rec'.attempt = rec.attempt
    BY <1>1, <1>3, ActiveFacts DEF Records
  <1>5. Old(p) /\ shop.state = "active" /\ rec.upload = p.upload
    BY <1>1, ActiveFacts DEF Knows, KnowsRemote, Holds, Agrees
  <1>6. World' /\ SoldAsPrinted' /\ PublishedIsLive'
    BY <1>1, <1>3, <1>4, <1>5, ActiveFacts
       DEF World, PublishedIsLive, SoldAsPrinted, Shows, Old, ReplacementInv
  <1>7. proc'[a] = Idle /\ \A b \in Operators \ {a} : proc'[b] = proc[b]
    BY <1>1, <1>3, ActiveFacts DEF Becomes
  <1>8. rec'.upload <= used /\ rec'.new = rec.new
    BY <1>1, <1>3, <1>4, ActiveFacts DEF Records, ReplacementInv, Numbered
  <1>. QED BY <1>1, <1>3, <1>4, <1>6, <1>7, <1>8, OwnEnd

(* The recorded outcome: aborted only where the published listing was proved *)
(* to be restored, else failed, for a reconciliation.                        *)
LEMMA RecordOutcomeKeeps ==
    ASSUME ReplacementInv, TypeOK', NEW a \in Operators, RecordOutcome(a)
    PROVE  ReplacementInv'
  <1>. DEFINE p == proc[a]
  <1>1. p.pc = "record" /\ Active(p)
    BY DEF RecordOutcome, At, Active, Waiting
  <1>2. /\ UNCHANGED <<art, sold, shop, used>> /\ Becomes(a, Idle)
        /\ rec' = Saved(p, Outcome(p))
    BY <1>1, ActiveFacts DEF RecordOutcome, remote
  <1>3. proc'[a] = Idle /\ \A b \in Operators \ {a} : proc'[b] = proc[b]
    BY <1>1, <1>2, ActiveFacts DEF Becomes
  <1>4. /\ rec'.op = rec.op /\ rec'.attempt = rec.attempt /\ rec'.upload = rec.upload
        /\ rec'.new = rec.new /\ rec'.mocks = rec.mocks
        /\ rec'.status = Outcome(p)
        /\ rec'.run = IF Outcome(p) = "failed" THEN "verification_required" ELSE "published"
    BY <1>1, <1>2, ActiveFacts DEF Saved, Outcome, Records, Holds, Agrees, Identified, None
  <1>5. rec'.run = "published" => Old(p) /\ shop.state = "active" /\ rec.upload = p.upload
    BY <1>1, <1>4, ActiveFacts DEF Outcome, Knows, KnowsRemote, Holds, Agrees
  <1>6. World'
    BY <1>1, <1>2, <1>4, ActiveFacts DEF World, Shows, Holds
  <1>7. SoldAsPrinted' /\ PublishedIsLive'
    BY <1>2, <1>4, <1>5 DEF PublishedIsLive, SoldAsPrinted, Shows, Old, ReplacementInv
  <1>8. rec'.upload <= used /\ rec'.status # "in_progress"
    BY <1>4 DEF ReplacementInv, Numbered, Outcome
  <1>. QED BY <1>1, <1>2, <1>3, <1>4, <1>6, <1>7, <1>8, OwnEnd

(* A step of the except clauses: the checkpoint is left alone. *)
LEMMA ExceptStep ==
    ASSUME ReplacementInv, TypeOK', World', NEW a \in Operators, Active(proc[a]),
           UNCHANGED <<rec, art, sold, used>>,
           \A b \in Operators \ {a} : proc'[b] = proc[b],
           Same(proc[a], proc'[a]), proc'[a].new = proc[a].new, proc'[a].mocks = proc[a].mocks,
           Identified(proc[a])', Remembers(proc[a])', Active(proc[a])', Knows(proc[a])'
    PROVE  ReplacementInv'
  <1>1. Holds(proc[a])' /\ Sound(proc[a])' /\ SoldAsPrinted'
    BY ActiveFacts DEF Holds, Agrees, Same, Sound, TypeOK, SoldAsPrinted, ReplacementInv
  <1>. QED BY <1>1, OwnStep

(* The listing is activated again only after the old state was proved. *)
LEMMA RestoreKeeps ==
    ASSUME ReplacementInv, TypeOK', NEW a \in Operators, Restore(a)
    PROVE  ReplacementInv'
  <1>. DEFINE p == proc[a]
  <1>1. p.pc = "restore" /\ Active(p)
    BY DEF Restore, At, Active, Waiting
  <1>2. /\ Old(p) /\ p.kind = "replace" /\ p.deact /\ ~p.fulfil /\ ~p.safe /\ shop \in Listings
    BY <1>1, ActiveFacts DEF Knows, KnowsRemote, Identified, Remembers, ReplaceOnly
  <1>3. /\ UNCHANGED <<rec, art, sold, used>>
        /\ shop'.gallery = shop.gallery /\ shop'.links = shop.links
        /\ \/ Becomes(a, Goes(p, "restored")) /\ shop'.state = "active"
           \/ Becomes(a, Goes(p, "silence"))
    BY <1>2 DEF Restore, remote, Listings
  <1>4. World'
    BY <1>1, <1>2, <1>3, ActiveFacts DEF World, Shows, Old
  <1>5. CASE Becomes(a, Goes(p, "restored")) /\ shop'.state = "active"
    <2>1. /\ proc'[a].pc = "restored" /\ Same(p, proc'[a])
          /\ proc'[a].new = p.new /\ proc'[a].mocks = p.mocks /\ proc'[a].deact = p.deact
          /\ proc'[a].fulfil = p.fulfil /\ proc'[a].safe = p.safe
          /\ \A b \in Operators \ {a} : proc'[b] = proc[b]
      BY <1>1, <1>5, ActiveFacts DEF Becomes, Goes, Processes, Same
    <2>2. Identified(p)' /\ Remembers(p)' /\ Active(p)'
      BY <1>1, <1>2, <2>1, ActiveFacts DEF Identified, Remembers, Active, Waiting, ReplaceOnly,
         ReconcileOnly, Gallery, Finish, Same
    <2>3. Knows(p)'
      BY <1>2, <1>3, <1>5, <2>1 DEF Knows, KnowsRemote, KnowsGallery, Old, Shows, Gallery, Finish, Same
    <2>. QED BY <1>1, <1>3, <1>4, <2>1, <2>2, <2>3, ExceptStep
  <1>6. CASE Becomes(a, Goes(p, "silence"))
    <2>1. /\ proc'[a].pc = "silence" /\ Same(p, proc'[a])
          /\ proc'[a].new = p.new /\ proc'[a].mocks = p.mocks /\ proc'[a].deact = p.deact
          /\ proc'[a].fulfil = p.fulfil /\ proc'[a].safe = p.safe
          /\ \A b \in Operators \ {a} : proc'[b] = proc[b]
      BY <1>1, <1>6, ActiveFacts DEF Becomes, Goes, Processes, Same
    <2>2. Identified(p)' /\ Remembers(p)' /\ Active(p)'
      BY <1>1, <1>2, <2>1, ActiveFacts DEF Identified, Remembers, Active, Waiting, ReplaceOnly,
         ReconcileOnly, Gallery, Finish, Same
    <2>3. Knows(p)'
      BY <1>2, <2>1 DEF Knows, KnowsRemote, KnowsGallery, Gallery, Finish, Same
    <2>. QED BY <1>1, <1>3, <1>4, <2>1, <2>2, <2>3, ExceptStep
  <1>. QED BY <1>3, <1>5, <1>6

(* A restored listing that is read back makes the outcome safe. *)
LEMMA RestoredKeeps ==
    ASSUME ReplacementInv, TypeOK', NEW a \in Operators, Restored(a)
    PROVE  ReplacementInv'
  <1>. DEFINE p == proc[a]
  <1>1. p.pc = "restored" /\ Active(p)
    BY DEF Restored, At, Active, Waiting
  <1>2. /\ Old(p) /\ shop.state = "active" /\ p.kind = "replace" /\ p.deact /\ ~p.fulfil /\ ~p.safe
    BY <1>1, ActiveFacts DEF Knows, KnowsRemote, Identified, Remembers, ReplaceOnly
  <1>3. /\ UNCHANGED <<rec, art, sold, shop, used>>
        /\ \/ Becomes(a, [Goes(p, "record") EXCEPT !.safe = TRUE])
           \/ Becomes(a, Goes(p, "silence"))
    BY DEF Restored, remote
  <1>4. World'
    BY <1>1, <1>3, ActiveFacts DEF World, Shows
  <1>5. CASE Becomes(a, [Goes(p, "record") EXCEPT !.safe = TRUE])
    <2>1. /\ proc'[a].pc = "record" /\ Same(p, proc'[a])
          /\ proc'[a].new = p.new /\ proc'[a].mocks = p.mocks /\ proc'[a].deact = p.deact
          /\ proc'[a].fulfil = p.fulfil
          /\ \A b \in Operators \ {a} : proc'[b] = proc[b]
      BY <1>1, <1>5, ActiveFacts DEF Becomes, Goes, Processes, Same
    <2>2. Identified(p)' /\ Remembers(p)' /\ Active(p)'
      BY <1>1, <1>2, <2>1, ActiveFacts DEF Identified, Remembers, Active, Waiting, ReplaceOnly,
         ReconcileOnly, Gallery, Finish, Same
    <2>3. Knows(p)'
      BY <1>2, <1>3, <2>1 DEF Knows, KnowsRemote, KnowsGallery, Old, Shows, Gallery, Finish, Same
    <2>. QED BY <1>1, <1>3, <1>4, <2>1, <2>2, <2>3, ExceptStep
  <1>6. CASE Becomes(a, Goes(p, "silence"))
    <2>1. /\ proc'[a].pc = "silence" /\ Same(p, proc'[a])
          /\ proc'[a].new = p.new /\ proc'[a].mocks = p.mocks /\ proc'[a].deact = p.deact
          /\ proc'[a].fulfil = p.fulfil /\ proc'[a].safe = p.safe
          /\ \A b \in Operators \ {a} : proc'[b] = proc[b]
      BY <1>1, <1>6, ActiveFacts DEF Becomes, Goes, Processes, Same
    <2>2. Identified(p)' /\ Remembers(p)' /\ Active(p)'
      BY <1>1, <1>2, <2>1, ActiveFacts DEF Identified, Remembers, Active, Waiting, ReplaceOnly,
         ReconcileOnly, Gallery, Finish, Same
    <2>3. Knows(p)'
      BY <1>2, <2>1 DEF Knows, KnowsRemote, KnowsGallery, Gallery, Finish, Same
    <2>. QED BY <1>1, <1>3, <1>4, <2>1, <2>2, <2>3, ExceptStep
  <1>. QED BY <1>3, <1>5, <1>6

(* The safety deactivation leaves nothing to be relied on. *)
LEMMA SilenceKeeps ==
    ASSUME ReplacementInv, TypeOK', NEW a \in Operators, Silence(a)
    PROVE  ReplacementInv'
  <1>. DEFINE p == proc[a]
  <1>1. p.pc = "silence" /\ Active(p)
    BY DEF Silence, At, Active, Waiting
  <1>2. ~p.safe /\ shop \in Listings
    BY <1>1, ActiveFacts DEF Remembers
  <1>3. /\ UNCHANGED <<rec, art, sold, used>> /\ Becomes(a, Goes(p, "record"))
        /\ shop' \in {shop, [shop EXCEPT !.state = "inactive"]}
    BY DEF Silence
  <1>4. World'
    BY <1>1, <1>2, <1>3, ActiveFacts DEF World, Shows, Listings
  <1>5. /\ proc'[a].pc = "record" /\ Same(p, proc'[a])
        /\ proc'[a].new = p.new /\ proc'[a].mocks = p.mocks /\ proc'[a].deact = p.deact
        /\ proc'[a].fulfil = p.fulfil /\ proc'[a].safe = p.safe
        /\ \A b \in Operators \ {a} : proc'[b] = proc[b]
    BY <1>1, <1>3, ActiveFacts DEF Becomes, Goes, Processes, Same
  <1>6. Identified(p)' /\ Remembers(p)' /\ Active(p)'
    BY <1>1, <1>2, <1>5, ActiveFacts DEF Identified, Remembers, Active, Waiting, ReplaceOnly,
       ReconcileOnly, Gallery, Finish, Same
  <1>7. Knows(p)'
    BY <1>2, <1>5 DEF Knows, KnowsRemote, KnowsGallery, Gallery, Finish, Same
  <1>. QED BY <1>1, <1>3, <1>4, <1>5, <1>6, <1>7, ExceptStep

-----------------------------------------------------------------------------
(* The steps of commands that are not active *)

(* A command that is not active before and after its step leaves the rest    *)
(* alone.                                                                    *)
LEMMA WaitStep ==
    ASSUME ReplacementInv, TypeOK', NEW a \in Operators, ~Active(proc[a]), ~Active(proc[a])',
           \A b \in Operators \ {a} : proc'[b] = proc[b],
           UNCHANGED <<rec, art, shop, sold>>,
           Sound(proc[a])', Numbered', proc'[a].pc = "lease" => MayLease(proc[a])'
    PROVE  ReplacementInv'
  <1>1. World' /\ PublishedIsLive' /\ SoldAsPrinted'
    BY DEF ReplacementInv, World, PublishedIsLive, SoldAsPrinted, Shows
  <1>2. Commanded'
    <2>1. ASSUME NEW b \in Operators \ {a}
          PROVE  /\ Sound(proc[b])'
                 /\ Active(proc[b])' => Holds(proc[b])' /\ Knows(proc[b])'
                 /\ proc'[b].pc = "lease" => MayLease(proc[b])'
      <3>1. proc'[b] = proc[b]
        BY <2>1
      <3>2. /\ Sound(proc[b])
            /\ Active(proc[b]) => Holds(proc[b]) /\ Knows(proc[b])
            /\ proc[b].pc = "lease" => MayLease(proc[b])
        BY <2>1 DEF ReplacementInv, Commanded
      <3>3. Sound(proc[b])' /\ Active(proc[b])' = Active(proc[b])
        BY <3>1, <3>2 DEF Sound, Identified, Remembers, Active
      <3>4. Holds(proc[b])' = Holds(proc[b]) /\ MayLease(proc[b])' = MayLease(proc[b])
        BY <3>1 DEF Holds, Agrees, MayLease
      <3>5. Knows(proc[b])' = Knows(proc[b])
        BY <3>1 DEF Knows, KnowsRemote, KnowsGallery, Old, New, OldPhotos, Shows
      <3>. QED BY <3>1, <3>2, <3>3, <3>4, <3>5
    <2>. QED BY <2>1 DEF Commanded
  <1>. QED BY <1>1, <1>2 DEF ReplacementInv

(* A command that ends, is refused, or crashes frees its number. *)
LEMMA Freed ==
    ASSUME ReplacementInv, TypeOK', NEW a \in Operators, proc' = [proc EXCEPT ![a] = Idle],
           UNCHANGED <<rec, art, shop, sold, used>>
    PROVE  ReplacementInv'
  <1>1. proc'[a] = Idle /\ \A b \in Operators \ {a} : proc'[b] = proc[b]
    BY DEF ReplacementInv, TypeOK
  <1>2. CASE Active(proc[a])
    <2>1. World' /\ SoldAsPrinted' /\ PublishedIsLive'
      BY DEF ReplacementInv, World, PublishedIsLive, SoldAsPrinted, Shows
    <2>2. rec'.upload <= used
      BY DEF ReplacementInv, Numbered
    <2>. QED BY <1>1, <1>2, <2>1, <2>2, OwnEnd
  <1>3. CASE ~Active(proc[a])
    <2>1. Numbered'
      <3>1. used \in Nat /\ Idle.id = 0 /\ Idle.op = 0 /\ Idle.kind = "none" /\ Idle.pc = "idle"
        BY DEF ReplacementInv, TypeOK, Idle, None
      <3>2. \A b \in Operators : proc[b].kind # "none" \/ proc[b].pc \in {"preflight", "begin"}
                                      => proc[b].id # 0
        BY DEF ReplacementInv, Commanded, Sound, Identified, None
      <3>. QED BY <1>1, <3>1, <3>2 DEF ReplacementInv, Numbered
    <2>2. Sound(proc[a])' /\ ~Active(proc[a])' /\ proc'[a].pc # "lease"
      BY <1>1, IdleSound DEF Sound, Identified, Remembers, Active
    <2>. QED BY <1>1, <1>3, <2>1, <2>2, WaitStep
  <1>. QED BY <1>2, <1>3

(* A command that dies frees its lease. *)
LEMMA CrashKeeps ==
    ASSUME ReplacementInv, TypeOK', NEW a \in Operators, Crash(a)
    PROVE  ReplacementInv'
  BY Freed DEF Crash, Becomes, remote

(* A waiting command that raises is gone. *)
LEMMA WaitingRaises ==
    ASSUME ReplacementInv, TypeOK', NEW a \in Operators, proc[a].pc \in Waiting,
           Becomes(a, Raise(proc[a])), UNCHANGED <<rec, art, shop, sold, used>>
    PROVE  ReplacementInv'
  <1>1. Raise(proc[a]) = Idle
    BY DEF ReplacementInv, Commanded, Sound, Identified, Raise, Waiting
  <1>. QED BY <1>1, Freed DEF Becomes

(* A new replacement waits and holds nothing, with a number nobody has used. *)
LEMMA StartReplaceKeeps ==
    ASSUME ReplacementInv, TypeOK', NEW a \in Operators, StartReplace(a)
    PROVE  ReplacementInv'
  <1>1. /\ ~Active(proc[a]) /\ UNCHANGED <<rec, art, shop, sold>> /\ used' = used + 1
        /\ used \in Nat /\ rec.upload \in Nat /\ rec.upload <= used
        /\ rec.op \in Nat /\ rec.attempt \in Nat /\ rec.new \in Nat
    BY DEF StartReplace, At, Active, remote, ReplacementInv, TypeOK, Records, Numbered, Artworks
  <1>2. /\ proc'[a].pc = "preflight" /\ proc'[a].kind = "replace" /\ proc'[a].id = used + 1
        /\ proc'[a].op = None /\ proc'[a].attempt = None /\ proc'[a].upload = rec.upload
        /\ ~proc'[a].deact /\ ~proc'[a].fulfil /\ proc'[a].new = 0 /\ ~proc'[a].mocks
        /\ ~proc'[a].safe /\ \A b \in Operators \ {a} : proc'[b] = proc[b]
    BY DEF StartReplace, Becomes, ReplacementInv, TypeOK, Idle
  <1>3. \A b \in Operators : proc[b].id \in Nat /\ proc[b].op \in Nat
    BY DEF ReplacementInv, TypeOK, Processes
  <1>4. Numbered'
    <2>1. \A b \in Operators : proc[b].pc \in {"preflight", "begin"} => proc[b].id # 0
      BY DEF ReplacementInv, Commanded, Sound, Identified, None
    <2>. QED BY <1>1, <1>2, <1>3, <2>1 DEF ReplacementInv, Numbered, None
  <1>5. Sound(proc[a])' /\ ~Active(proc[a])'
    <2>1. Identified(proc[a])' /\ Remembers(proc[a])' /\ ~Active(proc[a])'
      BY <1>1, <1>2 DEF Identified, Remembers, Active, Waiting, ReplaceOnly, ReconcileOnly,
         Gallery, Finish, None
    <2>. QED BY <2>1 DEF Sound, TypeOK
  <1>. QED BY <1>1, <1>2, <1>4, <1>5, WaitStep

(* The preflight reads and goes on to the lease. *)
LEMMA PreflightKeeps ==
    ASSUME ReplacementInv, TypeOK', NEW a \in Operators, Preflight(a)
    PROVE  ReplacementInv'
  <1>. DEFINE p == proc[a]
              q == [Goes(p, "begin") EXCEPT !.snap = edits]
  <1>1. /\ p.pc = "preflight" /\ p \in Processes /\ Identified(p) /\ Remembers(p) /\ ~Active(p)
        /\ proc \in [Operators -> Processes]
    BY DEF Preflight, At, ReplacementInv, Commanded, Sound, Active, Waiting, TypeOK
  <1>2. /\ UNCHANGED <<rec, art, shop, sold, used>>
        /\ Becomes(a, q) \/ Becomes(a, Raise(p))
    BY DEF Preflight, Decide, remote
  <1>3. CASE Becomes(a, Raise(p))
    BY <1>1, <1>2, <1>3, WaitingRaises DEF Waiting
  <1>4. CASE Becomes(a, q)
    <2>1. /\ proc'[a].pc = "begin" /\ Same(p, proc'[a])
          /\ proc'[a].new = p.new /\ proc'[a].mocks = p.mocks /\ proc'[a].deact = p.deact
          /\ proc'[a].fulfil = p.fulfil /\ proc'[a].safe = p.safe
          /\ \A b \in Operators \ {a} : proc'[b] = proc[b]
      BY <1>1, <1>4 DEF Becomes, Goes, Processes, Same
    <2>2. Identified(p)' /\ Remembers(p)' /\ ~Active(p)'
      BY <1>1, <2>1 DEF Identified, Remembers, Active, Waiting, ReplaceOnly, ReconcileOnly,
         Gallery, Finish, Same
    <2>3. Numbered'
      BY <1>1, <1>2, <2>1 DEF ReplacementInv, Numbered, Same
    <2>4. Sound(p)'
      BY <2>2 DEF Sound, TypeOK
    <2>. QED BY <1>1, <1>2, <2>1, <2>2, <2>3, <2>4, WaitStep
  <1>. QED BY <1>2, <1>3, <1>4

(* While the run is published, or its checkpoint may be taken over, no       *)
(* command is active.                                                        *)
LEMMA NobodyActive ==
    ASSUME ReplacementInv,
           rec.run = "published" \/ rec.stale \/ rec.status \notin {"in_progress", "reconciling"}
    PROVE  \A b \in Operators : ~Active(proc[b])
  BY DEF ReplacementInv, Commanded, Holds

(* _initial_checkpoint: the run leaves the published state it was found in. *)
LEMMA BeginKeeps ==
    ASSUME ReplacementInv, TypeOK', NEW a \in Operators, Begin(a)
    PROVE  ReplacementInv'
  <1>. DEFINE p == proc[a]
              q == [Goes(p, "upload") EXCEPT !.op = p.id]
              r == [Unstarted EXCEPT !.run = "verification_required", !.upload = rec.upload,
                                     !.status = "in_progress", !.op = p.id, !.snap = p.snap]
  <1>1. /\ p.pc = "begin" /\ p \in Processes /\ Identified(p) /\ Remembers(p) /\ ~Active(p)
        /\ proc \in [Operators -> Processes] /\ p.kind = "replace" /\ p.attempt = None
        /\ p.id # None /\ ~p.safe /\ p.id \in Nat /\ used \in Nat
    BY DEF Begin, At, ReplacementInv, Commanded, Sound, Active, Waiting, TypeOK, Identified,
       Remembers, Processes
  <1>2. /\ UNCHANGED <<art, shop, sold, used>>
        /\ \/ Becomes(a, Raise(p)) /\ rec' = rec
           \/ Becomes(a, q) /\ rec' = r /\ rec.run = "published" /\ rec.upload = p.upload
    BY DEF Begin, remote
  <1>3. CASE Becomes(a, Raise(p)) /\ rec' = rec
    BY <1>1, <1>2, <1>3, WaitingRaises DEF Waiting
  <1>4. CASE Becomes(a, q) /\ rec' = r /\ rec.run = "published" /\ rec.upload = p.upload
    <2>1. /\ proc'[a].pc = "upload" /\ proc'[a].kind = p.kind /\ proc'[a].id = p.id
          /\ proc'[a].op = p.id /\ proc'[a].attempt = p.attempt /\ proc'[a].upload = p.upload
          /\ proc'[a].new = p.new /\ proc'[a].mocks = p.mocks /\ proc'[a].deact = p.deact
          /\ proc'[a].fulfil = p.fulfil /\ proc'[a].safe = p.safe
          /\ \A b \in Operators \ {a} : proc'[b] = proc[b]
      BY <1>1, <1>4 DEF Becomes, Goes, Processes
    <2>2. /\ rec'.run = "verification_required" /\ rec'.upload = rec.upload
          /\ rec'.status = "in_progress" /\ rec'.op = p.id /\ rec'.attempt = None
          /\ rec'.new = 0 /\ rec'.mocks = FALSE /\ rec'.stale = FALSE
      BY <1>4 DEF Unstarted
    <2>3. \A b \in Operators : ~Active(proc[b])
      BY <1>4, NobodyActive
    <2>4. art = p.upload /\ Shows(p.upload) /\ shop.state = "active"
      BY <1>4 DEF ReplacementInv, PublishedIsLive
    <2>5. World' /\ SoldAsPrinted' /\ PublishedIsLive'
      BY <1>1, <1>2, <2>2, <2>4 DEF World, SoldAsPrinted, PublishedIsLive, ReplacementInv, Shows
    <2>6. Identified(p)' /\ Remembers(p)' /\ Active(p)'
      BY <1>1, <2>1 DEF Identified, Remembers, Active, Waiting, ReplaceOnly, ReconcileOnly,
         Gallery, Finish
    <2>7. Holds(p)' /\ Knows(p)'
      <3>1. p.new = 0 /\ p.mocks = FALSE
        BY <1>1 DEF Remembers, Processes
      <3>2. Holds(p)'
        BY <1>1, <1>4, <2>1, <2>2, <3>1 DEF Holds, Agrees
      <3>3. Knows(p)'
        BY <1>1, <1>2, <2>1, <2>4, <3>1 DEF Knows, KnowsRemote, KnowsGallery, Old, Shows, Gallery, Finish
      <3>. QED BY <3>2, <3>3
    <2>8. \A b \in Operators \ {a} : proc[b].op # p.id
      BY <1>1 DEF ReplacementInv, Numbered
    <2>9. Commanded'
      <3>1. \A b \in Operators : Sound(proc[b])'
        BY <2>1, <2>6 DEF ReplacementInv, Commanded, Sound, TypeOK, Identified, Remembers, Active
      <3>2. \A b \in Operators \ {a} : ~Active(proc[b])'
        BY <2>1, <2>3 DEF Active
      <3>3. \A b \in Operators : proc'[b].pc = "lease" => MayLease(proc[b])'
        BY <2>1, <2>2, <2>8 DEF MayLease
      <3>. QED BY <2>6, <2>7, <3>1, <3>2, <3>3 DEF Commanded
    <2>10. Numbered'
      <3>1. \A b \in Operators : proc[b].pc \in {"preflight", "begin", "lease"} =>
                                      proc[b].kind # "none" /\ proc[b].id # 0
        BY DEF ReplacementInv, Commanded, Sound, Identified, None
      <3>. QED BY <1>1, <1>2, <2>1, <2>2, <3>1 DEF ReplacementInv, Numbered, None
    <2>. QED BY <2>5, <2>9, <2>10 DEF ReplacementInv
  <1>. QED BY <1>2, <1>3, <1>4

(* A reconciliation starts from a checkpoint nobody holds. *)
LEMMA StartReconcileKeeps ==
    ASSUME ReplacementInv, TypeOK', NEW a \in Operators, StartReconcile(a)
    PROVE  ReplacementInv'
  <1>1. /\ ~Active(proc[a]) /\ UNCHANGED <<rec, art, shop, sold>> /\ used' = used + 1
        /\ used \in Nat /\ rec.upload \in Nat /\ rec.upload <= used
        /\ rec.op \in Nat /\ rec.attempt \in Nat /\ rec.new \in Nat
        /\ rec.run = "verification_required" /\ (rec.status = "in_progress" => rec.stale)
    BY DEF StartReconcile, At, Active, remote, ReplacementInv, TypeOK, Records, Numbered, Artworks
  <1>2. /\ proc'[a].pc = "lease" /\ proc'[a].kind = "reconcile" /\ proc'[a].id = used + 1
        /\ proc'[a].op = rec.op /\ proc'[a].attempt = None /\ proc'[a].upload = rec.upload
        /\ ~proc'[a].deact /\ ~proc'[a].fulfil /\ proc'[a].new = rec.new
        /\ proc'[a].mocks = rec.mocks
        /\ ~proc'[a].safe /\ \A b \in Operators \ {a} : proc'[b] = proc[b]
    BY DEF StartReconcile, Becomes, ReplacementInv, TypeOK, Idle
  <1>3. \A b \in Operators : proc[b].id \in Nat /\ proc[b].op \in Nat
    BY DEF ReplacementInv, TypeOK, Processes
  <1>4. Numbered'
    BY <1>1, <1>2, <1>3 DEF ReplacementInv, Numbered, None
  <1>5. Sound(proc[a])' /\ ~Active(proc[a])'
    <2>1. rec.op # None /\ (rec.new # 0 => rec.new # rec.upload)
      BY <1>1 DEF ReplacementInv, World
    <2>2. Identified(proc[a])' /\ Remembers(proc[a])' /\ ~Active(proc[a])'
      BY <1>1, <1>2, <2>1 DEF Identified, Remembers, Active, Waiting, ReplaceOnly, ReconcileOnly,
         Gallery, Finish, None
    <2>. QED BY <2>2 DEF Sound, TypeOK
  <1>6. MayLease(proc[a])'
    BY <1>1, <1>2 DEF MayLease, Agrees
  <1>. QED BY <1>1, <1>2, <1>4, <1>5, <1>6, WaitStep

(* _acquire_reconciliation_lease: the checkpoint is still what was read. *)
LEMMA LeaseKeeps ==
    ASSUME ReplacementInv, TypeOK', NEW a \in Operators, Lease(a)
    PROVE  ReplacementInv'
  <1>. DEFINE p == proc[a]
              q == [Goes(p, "inspect") EXCEPT !.attempt = p.id]
              r == [rec EXCEPT !.status = "reconciling", !.attempt = p.id, !.stale = FALSE]
  <1>1. /\ p.pc = "lease" /\ p \in Processes /\ Identified(p) /\ Remembers(p) /\ ~Active(p)
        /\ proc \in [Operators -> Processes] /\ p.kind = "reconcile" /\ p.op # None
        /\ p.id # None /\ ~p.safe /\ p.id \in Nat /\ used \in Nat /\ rec \in Records
        /\ MayLease(p)
    BY DEF Lease, At, ReplacementInv, Commanded, Sound, Active, Waiting, TypeOK, Identified,
       Remembers, Processes
  <1>2. /\ UNCHANGED <<art, shop, sold, used>>
        /\ \/ Becomes(a, Raise(p)) /\ rec' = rec
           \/ Becomes(a, q) /\ rec' = r /\ Leasable(p)
    BY DEF Lease, remote
  <1>3. CASE Becomes(a, Raise(p)) /\ rec' = rec
    BY <1>1, <1>2, <1>3, WaitingRaises DEF Waiting
  <1>4. CASE Becomes(a, q) /\ rec' = r /\ Leasable(p)
    <2>1. /\ proc'[a].pc = "inspect" /\ proc'[a].kind = p.kind /\ proc'[a].id = p.id
          /\ proc'[a].op = p.op /\ proc'[a].attempt = p.id /\ proc'[a].upload = p.upload
          /\ proc'[a].new = p.new /\ proc'[a].mocks = p.mocks /\ proc'[a].deact = p.deact
          /\ proc'[a].fulfil = p.fulfil /\ proc'[a].safe = p.safe
          /\ \A b \in Operators \ {a} : proc'[b] = proc[b]
      BY <1>1, <1>4 DEF Becomes, Goes, Processes
    <2>2. /\ rec'.run = rec.run /\ rec'.upload = rec.upload /\ rec'.new = rec.new
          /\ rec'.status = "reconciling" /\ rec'.op = rec.op /\ rec'.attempt = p.id
          /\ rec'.mocks = rec.mocks /\ rec'.stale = FALSE
      BY <1>1, <1>4 DEF Records
    <2>3. \A b \in Operators : ~Active(proc[b])
      BY <1>4, NobodyActive DEF Leasable
    <2>4. Agrees(p) /\ rec.run = "verification_required"
      BY <1>1, <1>4 DEF MayLease, Leasable
    <2>5. World' /\ SoldAsPrinted' /\ PublishedIsLive'
      BY <1>2, <2>2, <2>4 DEF World, SoldAsPrinted, PublishedIsLive, ReplacementInv, Shows
    <2>6. Identified(p)' /\ Remembers(p)' /\ Active(p)'
      BY <1>1, <2>1 DEF Identified, Remembers, Active, Waiting, ReplaceOnly, ReconcileOnly,
         Gallery, Finish
    <2>7. Holds(p)' /\ Knows(p)'
      <3>1. Holds(p)'
        BY <1>1, <2>1, <2>2, <2>4 DEF Holds, Agrees
      <3>2. Knows(p)'
        BY <1>1, <2>1 DEF Knows, KnowsRemote, KnowsGallery, Gallery, Finish
      <3>. QED BY <3>1, <3>2
    <2>8. Commanded'
      <3>1. \A b \in Operators : Sound(proc[b])'
        BY <2>1, <2>6 DEF ReplacementInv, Commanded, Sound, TypeOK, Identified, Remembers, Active
      <3>2. \A b \in Operators \ {a} : ~Active(proc[b])'
        BY <2>1, <2>3 DEF Active
      <3>3. \A b \in Operators : proc'[b].pc = "lease" => MayLease(proc[b])'
        BY <2>1, <2>2, <2>4 DEF MayLease, Agrees, ReplacementInv, Commanded
      <3>. QED BY <2>6, <2>7, <3>1, <3>2, <3>3 DEF Commanded
    <2>9. Numbered'
      <3>1. \A b \in Operators : proc[b].pc = "lease" => proc[b].kind # "none"
        BY DEF ReplacementInv, Commanded, Sound, Identified
      <3>. QED BY <1>1, <1>2, <2>1, <2>2, <3>1 DEF ReplacementInv, Numbered, None
    <2>. QED BY <2>5, <2>8, <2>9 DEF ReplacementInv
  <1>. QED BY <1>2, <1>3, <1>4

-----------------------------------------------------------------------------
(* Time, buyers and other people *)

(* A lease that runs out had no holder: what it guarded is only read by      *)
(* commands that wait for it.                                                *)
LEMMA LeaseExpiresKeeps ==
    ASSUME ReplacementInv, TypeOK', ~Overdue, LeaseExpires
    PROVE  ReplacementInv'
  <1>1. /\ UNCHANGED <<art, shop, sold, proc, used>>
        /\ rec'.run = rec.run /\ rec'.upload = rec.upload /\ rec'.status = rec.status
        /\ rec'.op = rec.op /\ rec'.attempt = rec.attempt /\ rec'.new = rec.new
        /\ rec'.mocks = rec.mocks /\ rec'.stale = TRUE
    BY DEF LeaseExpires, remote, ReplacementInv, TypeOK, Records
  <1>2. \A b \in Operators : ~Active(proc[b])
    BY DEF LeaseExpires, Holder, ReplacementInv, Commanded, Sound, Identified, Holds, Agrees
  <1>3. Commanded'
    <2>1. \A b \in Operators : Sound(proc[b])' /\ ~Active(proc[b])'
      BY <1>1, <1>2 DEF ReplacementInv, Commanded, Sound, Identified, Remembers, Active
    <2>2. \A b \in Operators : proc'[b].pc = "lease" => MayLease(proc[b])'
      BY <1>1 DEF ReplacementInv, Commanded, MayLease, Agrees
    <2>. QED BY <2>1, <2>2 DEF Commanded
  <1>4. Numbered' /\ World' /\ PublishedIsLive' /\ SoldAsPrinted'
    BY <1>1 DEF ReplacementInv, Numbered, World, PublishedIsLive, SoldAsPrinted, Shows
  <1>. QED BY <1>3, <1>4 DEF ReplacementInv

(* Buyers and other people change nothing that the commands hold; what is    *)
(* bought is what the product prints.                                        *)
LEMMA OutsideKeeps ==
    ASSUME ReplacementInv, TypeOK', Sale \/ (\E kind \in EditKinds : OtherEdit(kind))
    PROVE  ReplacementInv'
  <1>1. /\ UNCHANGED <<rec, art, shop, proc, used>>
        /\ sold' = sold \/ (shop.state = "active" /\ sold' \subseteq sold \cup {art})
    <2>1. shop.state = "active" => \A i \in shop.gallery : i[1] = art
      BY DEF ReplacementInv, World, Shows, Photos
    <2>. QED BY <2>1 DEF Sale, OtherEdit
  <1>2. World' /\ PublishedIsLive' /\ SoldAsPrinted' /\ Numbered'
    BY <1>1 DEF ReplacementInv, World, PublishedIsLive, SoldAsPrinted, Shows, Numbered
  <1>3. Commanded'
    <2>1. ASSUME NEW b \in Operators
          PROVE  /\ Sound(proc[b])'
                 /\ Active(proc[b])' => Holds(proc[b])' /\ Knows(proc[b])'
                 /\ proc'[b].pc = "lease" => MayLease(proc[b])'
      <3>1. /\ Sound(proc[b])
            /\ Active(proc[b]) => Holds(proc[b]) /\ Knows(proc[b])
            /\ proc[b].pc = "lease" => MayLease(proc[b])
        BY <2>1 DEF ReplacementInv, Commanded
      <3>2. Sound(proc[b])' /\ Active(proc[b])' = Active(proc[b])
        BY <1>1, <3>1 DEF Sound, Identified, Remembers, Active
      <3>3. Holds(proc[b])' = Holds(proc[b]) /\ MayLease(proc[b])' = MayLease(proc[b])
        BY <1>1 DEF Holds, Agrees, MayLease
      <3>4. Knows(proc[b]) => Knows(proc[b])'
        BY <1>1 DEF Knows, KnowsRemote, KnowsGallery, Old, New, OldPhotos, Shows, Gallery
      <3>. QED BY <1>1, <3>1, <3>2, <3>3, <3>4
    <2>. QED BY <2>1 DEF Commanded
  <1>. QED BY <1>2, <1>3 DEF ReplacementInv

-----------------------------------------------------------------------------
(* The theorems *)

(* Every step of a command keeps the invariant. *)
LEMMA CommandKeeps ==
    ASSUME ReplacementInv, TypeOK', NEW a \in Operators,
           \/ Replacing(a) \/ Photographing(a) \/ Finishing(a) \/ Reconciling(a)
           \/ RemoteFails(a) \/ Crash(a)
    PROVE  ReplacementInv'
  <1>1. CASE Replacing(a)
    BY <1>1, StartReplaceKeeps, PreflightKeeps, BeginKeeps, UploadKeeps, DeactivateKeeps,
       RecheckKeeps, PrintAreasKeeps, NotRenderedKeeps, RenderedKeeps, PreGalleryKeeps DEF Replacing
  <1>2. CASE Photographing(a)
    BY <1>2, BarrierKeeps, UnlinkKeeps, DeletePhotoKeeps, KeepLastKeeps, UploadFirstKeeps,
       HandOffKeeps, FillGalleryKeeps, GalleryFilledKeeps, RelinkKeeps DEF Photographing
  <1>3. CASE Finishing(a)
    BY <1>3, ApproveKeeps, ActivateKeeps, ConfirmKeeps, PersistKeeps, RestoreKeeps, RestoredKeeps,
       SilenceKeeps, RecordOutcomeKeeps DEF Finishing
  <1>4. CASE Reconciling(a)
    BY <1>4, StartReconcileKeeps, LeaseKeeps, InspectKeeps, ReactivateKeeps, ReverifyKeeps,
       DropKeeps, ResumeKeeps DEF Reconciling
  <1>5. CASE RemoteFails(a)
    <2>1. CASE Active(proc[a])
      BY <1>5, <2>1, RemoteFailsKeeps
    <2>2. CASE ~Active(proc[a])
      <3>1. proc[a].pc \in Waiting
        BY <1>5, <2>2 DEF RemoteFails, Reading, Active
      <3>. QED BY <1>5, <3>1, WaitingRaises DEF RemoteFails, Decide, remote
    <2>. QED BY <2>1, <2>2
  <1>6. CASE Crash(a)
    BY <1>6, CrashKeeps
  <1>. QED BY <1>1, <1>2, <1>3, <1>4, <1>5, <1>6

(* The run is published and nobody has done anything. *)
LEMMA ReplacementInit == Init => ReplacementInv
  <1>. SUFFICES ASSUME Init PROVE ReplacementInv
    OBVIOUS
  <1>1. /\ rec.run = "published" /\ rec.upload = 0 /\ rec.op = 0 /\ rec.attempt = 0 /\ rec.new = 0
        /\ \A a \in Operators : proc[a] = Idle
        /\ art = 0 /\ used = 0 /\ sold = {}
        /\ shop.state = "active" /\ shop.gallery = Photos(0) /\ shop.links = Photos(0)
    BY DEF Init, Unstarted, None
  <1>2. TypeOK
    BY TypeInit DEF TypeInv
  <1>3. Commanded
    BY <1>1, IdleSound DEF Commanded
  <1>4. Numbered
    <2>1. Idle.id = 0 /\ Idle.op = 0 /\ Idle.kind = "none" /\ Idle.pc = "idle"
      BY DEF Idle, None
    <2>. QED BY <1>1, <2>1 DEF Numbered
  <1>5. World /\ PublishedIsLive /\ SoldAsPrinted
    BY <1>1, PhotosNonempty DEF World, PublishedIsLive, SoldAsPrinted, Shows
  <1>. QED BY <1>2, <1>3, <1>4, <1>5 DEF ReplacementInv

(* Every step keeps the invariant, where a lease outlives its holder.        *)
LEMMA ReplacementStep ==
    ASSUME ~Overdue, ReplacementInv, TypeOK', [Next]_vars
    PROVE  ReplacementInv'
  <1>1. CASE LeaseExpires
    BY <1>1, LeaseExpiresKeeps
  <1>2. CASE Sale \/ \E kind \in EditKinds : OtherEdit(kind)
    BY <1>2, OutsideKeeps
  <1>3. CASE UNCHANGED vars
    <2>1. UNCHANGED <<rec, art, shop, sold, edits, proc, used>>
      BY <1>3 DEF vars
    <2>. QED BY <2>1 DEF ReplacementInv, TypeOK, Commanded, Sound, Identified, Remembers, Active,
            Holds, Agrees, Knows, KnowsRemote, KnowsGallery, Old, New, OldPhotos, Shows, MayLease,
            Numbered, World, PublishedIsLive, SoldAsPrinted
  <1>. QED BY <1>1, <1>2, <1>3, CommandKeeps DEF Next

(* While a photo can be deleted, the listing is inactive, and the product    *)
(* and the checkpoint have the new artwork.                                  *)
LEMMA DeletingIsSafe ==
    ASSUME ReplacementInv, NEW a \in Operators, proc[a].pc \in {"delete", "handoff"}
    PROVE  shop.state = "inactive" /\ rec.mocks /\ art # rec.upload
  <1>. DEFINE p == proc[a]
  <1>1. Active(p)
    BY DEF Active, Waiting
  <1>2. art = p.new /\ shop.state = "inactive" /\ p.mocks /\ p.new # p.upload
    BY <1>1, ActiveFacts DEF Knows, KnowsRemote, New, Gallery, Remembers
  <1>. QED BY <1>1, <1>2, ActiveFacts DEF Holds, Agrees

(* Only two steps take photos away. *)
LEMMA OthersKeepPhotos ==
    ASSUME shop \in Listings, [Next]_vars
    PROVE  \/ shop.gallery \subseteq shop'.gallery
           \/ \E a \in Operators : proc[a].pc \in {"delete", "handoff"}
  <1>1. CASE LeaseExpires \/ Sale \/ (\E kind \in EditKinds : OtherEdit(kind)) \/ UNCHANGED vars
    BY <1>1 DEF LeaseExpires, Sale, OtherEdit, vars, remote
  <1>2. ASSUME NEW a \in Operators, Replacing(a)
        PROVE  shop.gallery \subseteq shop'.gallery
    <2>1. shop' = shop \/ shop' \in {shop, [shop EXCEPT !.state = "inactive"]}
      BY <1>2 DEF Replacing, StartReplace, Preflight, Begin, Upload, Deactivate, Recheck, PrintAreas,
         NotRendered, Rendered, PreGallery, Decide, DecideAndSave, Write, remote
    <2>. QED BY <2>1 DEF Listings
  <1>3. ASSUME NEW a \in Operators, Photographing(a)
        PROVE  \/ shop.gallery \subseteq shop'.gallery
               \/ proc[a].pc \in {"delete", "handoff"}
    BY <1>3 DEF Photographing, Barrier, Unlink, DeletePhoto, KeepLast, UploadFirst, HandOff,
       FillGallery, GalleryFilled, Relink, Decide, DecideAndSave, Write, AnnouncedWrite, remote,
       At, Listings
  <1>4. ASSUME NEW a \in Operators, Finishing(a)
        PROVE  shop.gallery \subseteq shop'.gallery
    BY <1>4 DEF Finishing, Approve, Activate, Confirm, Persist, Restore, Restored, Silence,
       RecordOutcome, Decide, DecideAndSave, Write, remote, Listings
  <1>5. ASSUME NEW a \in Operators, Reconciling(a) \/ RemoteFails(a) \/ Crash(a)
        PROVE  shop.gallery \subseteq shop'.gallery
    BY <1>5 DEF Reconciling, StartReconcile, Lease, Inspect, Reactivate, Reverify, Drop, Resume,
       RemoteFails, Crash, Decide, DecideAndSave, Write, remote, Listings
  <1>. QED BY <1>1, <1>2, <1>3, <1>4, <1>5 DEF Next

(* The inductive invariant, where a lease outlives its holder. *)
THEOREM ReplacementInvariant ==
    ASSUME ~Overdue
    PROVE  Spec => [](TypeInv /\ ReplacementInv)
  <1>1. Init => TypeInv /\ ReplacementInv
    BY TypeInit, ReplacementInit
  <1>2. (TypeInv /\ ReplacementInv) /\ [Next]_vars => (TypeInv /\ ReplacementInv)'
    BY TypeStep, ReplacementStep DEF TypeInv
  <1>. QED BY <1>1, <1>2, PTL DEF Spec

(* Nobody receives another artwork than the photo they bought from showed,   *)
(* whatever is interrupted: the print areas change only while the listing is *)
(* inactive and without an order.                                            *)
THEOREM NobodyIsMisled ==
    ASSUME ~Overdue
    PROVE  Spec => []SoldAsPrinted
  <1>1. ReplacementInv => SoldAsPrinted
    BY DEF ReplacementInv
  <1>. QED BY <1>1, ReplacementInvariant, PTL

(* A run that the database calls published is live with what is recorded.    *)
THEOREM PublishedRunsAreLive ==
    ASSUME ~Overdue
    PROVE  Spec => []PublishedIsLive
  <1>1. ReplacementInv => PublishedIsLive
    BY DEF ReplacementInv
  <1>. QED BY <1>1, ReplacementInvariant, PTL

(* A photo of the published artwork is deleted only while the listing is     *)
(* inactive, the product prints the new artwork and the new photos are       *)
(* retained, and the gallery is never emptied.                               *)
THEOREM PhotosStayReplaceable ==
    ASSUME ~Overdue
    PROVE  Spec => PhotosAreReplaceable
  <1>1. (TypeInv /\ ReplacementInv) /\ (TypeInv /\ ReplacementInv)' /\ [Next]_vars =>
            [/\ \A i \in shop.gallery \ shop'.gallery :
                    i[1] = rec.upload => shop.state = "inactive" /\ rec.mocks /\ art # rec.upload
             /\ shop'.gallery # {}]_vars
    <2>. SUFFICES ASSUME TypeInv, ReplacementInv, ReplacementInv', [Next]_vars
                  PROVE  /\ \A i \in shop.gallery \ shop'.gallery :
                                shop.state = "inactive" /\ rec.mocks /\ art # rec.upload
                         /\ shop'.gallery # {}
      OBVIOUS
    <2>1. shop'.gallery # {}
      BY DEF ReplacementInv, World
    <2>2. shop \in Listings
      BY DEF TypeInv, TypeOK
    <2>. QED BY <2>1, <2>2, OthersKeepPhotos, DeletingIsSafe
  <1>. QED BY <1>1, ReplacementInvariant, PTL DEF Spec, PhotosAreReplaceable
=============================================================================
