---------------------------- MODULE FilesProofs ----------------------------
(***************************************************************************)
(* Proofs about FileTools, TreeTools and Snapshots, for any directories,   *)
(* any number of calls and of steps of other programs.  No two names stand *)
(* for one object, so nobody else changes what the staging name stands     *)
(* for; and the destination, the staging name and what other programs      *)
(* believe of the destination are known at every step of a call.           *)
(***************************************************************************)
EXTENDS Snapshots, SequenceTheorems, TLAPS

USE FileAssumption

\* The steps at which the staged object is there, and those at which what the
\* destination was is in its place.
Staged    == {"w_commit", "c_commit", "c_new", "c_again", "c_over", "b_commit",
              "r_look", "r_new", "r_over"}
Undoes    == {"w_undo", "c_undo", "c_restore"}
Exchanged == Undoes \cup {"w_verify", "w_back", "w_drop", "c_verify", "c_back", "c_drop"}
Displaces == Exchanged \cup {"r_drop"}

NamesInv == \A m, n \in Names : m # n /\ entry[m] = entry[n] => entry[m] = None

StageInv ==
  /\ pc \in Staged => entry["tmp"] = ours
  /\ pc \in Staged \cup Exchanged => ours # None
  /\ pc \in Staged /\ call.op # "restore" => obj[ours].ver = 0
  /\ pc \in Displaces => entry["tmp"] # None
  /\ pc \notin Staged \cup Displaces => entry["tmp"] = None

\* Only directories have children, copies in snapshots included.
Plain(o) == o.kind # "dir" => o.kids = {}
PlainInv ==
  /\ \A i \in 1..Len(obj) : Plain(obj[i])
  /\ \A s \in {stage, snap} : \A p \in DOMAIN s : Plain(s[p])

\* What is there without the call is somewhere while the call goes on.
KeptInv ==
  /\ pc # "idle" => res # "crashed"
  /\ pc # "idle" \/ res = "crashed" =>
       \A n \in Public : theirs[n] \in {None} \cup {entry[m] : m \in Names} \cup kept

RestoreInv ==
  /\ pc \in {"s_copy", "r_stage", "r_look", "r_new", "r_over", "r_drop"} => left # <<>>
  /\ call.op = "restore" => \A p \in Public : entry[p] \in {theirs[p]} \cup copies
  /\ pc \in {"r_look", "r_new", "r_over"} => ours \in copies

\* What the call has looked at is what it is about to remove.
SeenInv ==
  /\ pc = "w_drop" => /\ entry["tmp"] = seen.id /\ obj[seen.id].ver = seen.ver
                      /\ obj[seen.id].text = call.want
  /\ pc = "c_drop" => entry["tmp"] = seen.id
  /\ pc \in {"m_over", "m_verify", "m_drop"} => seen.id # None

\* Outside the windows, a rollback finds what it has looked at, nobody has
\* changed the object that may be taken back, nor put anything into the
\* directory that is to be replaced.
WindowInv ==
  ~slipped =>
    /\ pc \in Undoes => entry["dst"] = ours /\ ours # None
    /\ pc \in Exchanged \ {"w_drop"} /\ entry["dst"] = ours /\ ours # None => obj[ours].ver = 0
    /\ pc \in {"m_over", "m_verify", "m_drop"} => obj[seen.id].kids = {}
    /\ pc = "m_drop" => entry["src"] = seen.id

\* The destination of a call that publishes a new object.
DestInv ==
  call.op \in {"write", "copy", "bundle"} /\ ~slipped =>
    /\ pc \notin Exchanged \cup {"idle"} => entry["dst"] = theirs["dst"]
    /\ pc \in Exchanged /\ entry["dst"] # ours => theirs["dst"] = entry["dst"]
    /\ pc \in Exchanged /\ entry["dst"] = ours =>
         theirs["dst"] = entry["tmp"] \/ (pc = "w_drop" /\ theirs["dst"] = ours)
    /\ pc = "idle" => \/ entry["dst"] = theirs["dst"]
                      \/ entry["dst"] = ours /\ res \in {"ok", "broken", "crashed"}

IInv == /\ TypeOK /\ NamesInv /\ StageInv /\ PlainInv /\ KeptInv /\ RestoreInv /\ SeenInv
        /\ WindowInv /\ DestInv /\ UnseenSurvives

-----------------------------------------------------------------------------
(* Types.                                                                  *)

\* The step of the handler tells the tool.
LEMMA Course ==
  ASSUME TypeOK
  PROVE  /\ pc = "idle" \/ pc \in Steps(call.op)
         /\ call.op = "write"    => Steps(call.op) = Steps("write")
         /\ \A op \in {"write", "copy", "move", "remove", "bundle", "snapshot", "restore"} :
              pc \in Steps(op) => call.op = op
  BY DEF TypeOK, Steps, Calls

\* The first state has the types.
LEMMA TypeInit == SnapInit => TypeOK
<1> SUFFICES ASSUME SnapInit PROVE TypeOK
  OBVIOUS
<1>1. obj \in Seq(Copy1) /\ Len(obj) = 2 /\ obj[1] \in Copy1
  BY DEF SnapInit, Init, Copy1, Object, Texts
<1>2. Names = {"src", "dst", "tmp"}
  BY DEF Names, Public
<1>3. entry \in [Names -> Ids]
  BY <1>1, <1>2 DEF SnapInit, Init, Ids, None
<1>4. \A s \in {stage, snap} : DOMAIN s \subseteq Public /\ s \in [DOMAIN s -> Copy1]
  BY <1>1 DEF SnapInit, Absent
<1>5. call \in Calls
  BY DEF SnapInit, Init, NoCall, Calls, NoHash
<1>6. seen \in [id : Ids, ver : Nat] /\ from \in Ids /\ ours \in Ids /\ theirs = entry
  BY <1>1 DEF SnapInit, Init, Ids, None
<1>7. calls \in 0..MaxCalls /\ others \in 0..MaxOthers
  BY DEF SnapInit, Init
<1>8. slipped \in BOOLEAN
  BY Zenon DEF SnapInit, Init
<1> QED
  BY <1>1, <1>3, <1>4, <1>5, <1>6, <1>7, <1>8 DEF SnapInit, Init, TypeOK

\* A step of a call that leaves the names, and at most looks.
LEMMA TypeLooks ==
  ASSUME TypeOK, UNCHANGED <<fsVars, call, calls, others, theirs, torn, slipped, snapVars>>,
         unseen' = unseen, ours' = ours, res' = res,
         seen' = seen \/ seen' = [id |-> entry["dst"], ver |-> 0]
           \/ (entry["dst"] # None /\ seen' = [id |-> entry["dst"], ver |-> obj[entry["dst"]].ver]),
         from' = from \/ from' = entry["src"],
         pc' \in Steps(call.op) \cup {"idle"}
  PROVE  TypeOK'
<1>1. entry["dst"] \in Ids /\ entry["src"] \in Ids
  BY DEF TypeOK, Names, Public
<1>2. seen' \in [id : Ids, ver : Nat]
  <2>1. entry["dst"] # None => obj[entry["dst"]] \in Copy1
    BY <1>1 DEF TypeOK, Ids, None
  <2>2. entry["dst"] # None => obj[entry["dst"]].ver \in Nat
    BY <2>1 DEF Copy1
  <2>3. CASE seen' = [id |-> entry["dst"], ver |-> 0]
    BY <1>1, <2>3
  <2> QED
    BY <1>1, <2>2, <2>3 DEF TypeOK
<1>3. slipped' \in BOOLEAN
  BY Zenon DEF TypeOK
<1>4. Ids' = Ids
  BY DEF Ids, fsVars
<1> QED
  BY <1>1, <1>2, <1>3, <1>4 DEF TypeOK, fsVars, snapVars

\* A step of a call that changes what names stand for.
LEMMA TypeRenames ==
  ASSUME TypeOK, UNCHANGED <<obj, call, calls, others, seenVars, slipped, stage, copies>>,
         entry' \in [Names -> Ids], theirs' = theirs \/ theirs' = entry',
         torn' = torn, kept' \subseteq Ids \ {None}, unseen' \subseteq Ids,
         left' = left \/ (left # <<>> /\ left' = Tail(left)),
         DOMAIN snap' \subseteq Public, snap' \in [DOMAIN snap' -> Copy1],
         pc' \in Steps(call.op) \cup {"idle"},
         res' \in {res, "ok", "failed", "broken", "crashed"}
  PROVE  TypeOK'
<1>1. slipped' \in BOOLEAN
  BY Zenon DEF TypeOK
<1>2. Ids' = Ids
  BY DEF Ids
<1>3. left' \in Seq(Public)
  <2>1. left \in Seq(Public)
    BY DEF TypeOK
  <2>2. left # <<>> => Tail(left) \in Seq(Public)
    BY <2>1, HeadTailProperties, Zenon
  <2> QED
    BY <2>1, <2>2, Zenon
<1> QED
  BY <1>1, <1>2, <1>3 DEF TypeOK, seenVars

\* What a removal destroys exists.
LEMMA LosesId == ASSUME TypeOK, NEW o \in Ids PROVE Loses(o) \subseteq Ids /\ None \in Ids
  BY DEF Loses, TypeOK, Ids, None

\* A call that fails, the staged object being removed.
LEMMA TypeFails == ASSUME TypeOK, NEW p, Fails(p), UNCHANGED <<stage, snap, copies>> \/ stage' = Absent,
                          UNCHANGED <<snap, left, copies>>
                   PROVE  TypeOK'
<1>1. entry["tmp"] \in Ids
  BY DEF TypeOK, Names
<1>2. unseen' \subseteq Ids
  BY <1>1, LosesId DEF Fails, DiscardStaging, TypeOK
<1>3. entry' \in [Names -> Ids]
  BY <1>1, LosesId DEF Fails, DiscardStaging, TypeOK
<1>4. slipped' \in BOOLEAN
  BY Zenon DEF TypeOK, Fails
<1>5. stage' = stage \/ (DOMAIN stage' = {} /\ stage' \in [DOMAIN stage' -> Copy1])
  BY DEF Absent
<1> QED
  BY <1>2, <1>3, <1>4, <1>5 DEF TypeOK, Fails, DiscardStaging, End, argVars, seenVars, Ids

-----------------------------------------------------------------------------
(* Steps of a call that leave the names.                                   *)

Quiet == UNCHANGED <<fsVars, argVars, ours, histVars, res, snapVars>>

\* What is staged or displaced before the step is so after it.
GoesOn ==
  /\ pc \notin {"idle", "s_publish", "w_drop"} /\ pc' # "idle" /\ pc' \in Steps(call.op)
  /\ pc' \in Staged <=> pc \in Staged
  /\ pc' \in Exchanged <=> pc \in Exchanged
  /\ pc' = "r_drop" <=> pc = "r_drop"

\* Such a step keeps the invariant when the last two conjuncts hold after it.
LEMMA Looks ==
  ASSUME IInv, Quiet, GoesOn, SeenInv', WindowInv',
         seen' = seen \/ seen' = [id |-> entry["dst"], ver |-> 0]
           \/ (entry["dst"] # None /\ seen' = [id |-> entry["dst"], ver |-> obj[entry["dst"]].ver]),
         from' = from \/ from' = entry["src"]
  PROVE  IInv'
<1> USE DEF Quiet, GoesOn, fsVars, argVars, histVars, snapVars
<1>1. TypeOK'
  BY TypeLooks DEF IInv
<1>2. NamesInv' /\ PlainInv' /\ UnseenSurvives'
  BY DEF IInv, NamesInv, PlainInv, UnseenSurvives
<1>3. StageInv'
  BY DEF IInv, StageInv, Displaces
<1>4. KeptInv'
  BY DEF IInv, KeptInv
<1>5. RestoreInv'
  BY Course DEF IInv, RestoreInv, Steps, Staged, TypeOK, Calls
<1>6. DestInv'
  BY DEF IInv, DestInv
<1> QED
  BY <1>1, <1>2, <1>3, <1>4, <1>5, <1>6 DEF IInv

-----------------------------------------------------------------------------
(* A call that fails.                                                      *)

LEMMA FailsSafely ==
  ASSUME IInv, NEW p, Fails(p), pc # "idle", pc \notin Exchanged \/ slipped,
         stage' = stage \/ stage' = Absent, UNCHANGED <<snap, left, copies>>
  PROVE  IInv'
<1> USE DEF Fails, DiscardStaging, End, argVars, seenVars
<1>1. TypeOK'
  BY TypeFails DEF IInv
<1>2. pc' = "idle" /\ entry' = [entry EXCEPT !["tmp"] = None] /\ entry \in [Names -> Ids]
  BY DEF IInv, TypeOK
<1>3. NamesInv' /\ StageInv' /\ SeenInv' /\ WindowInv'
  BY <1>2 DEF IInv, NamesInv, StageInv, SeenInv, WindowInv, Staged, Displaces, Exchanged, Undoes, Names
<1>4. PlainInv'
  BY DEF IInv, PlainInv, Absent
<1>5. KeptInv' /\ RestoreInv'
  BY <1>2 DEF IInv, KeptInv, RestoreInv, Public
<1>6. DestInv'
  <2>1. entry'["dst"] = entry["dst"]
    BY <1>2 DEF Names, Public
  <2>2. theirs' = theirs /\ call' = call /\ slipped' = slipped /\ pc' = "idle"
    OBVIOUS
  <2>3. ASSUME call.op \in {"write", "copy", "bundle"}, ~slipped PROVE entry["dst"] = theirs["dst"]
    BY <2>3 DEF IInv, DestInv
  <2> QED
    BY <2>1, <2>2, <2>3 DEF DestInv, Exchanged, Undoes
<1>7. UnseenSurvives'
  <2>1. entry["tmp"] = None \/ call.op = "restore" \/ slipped
        \/ (entry["tmp"] = ours /\ obj[ours].ver = 0 /\ call.op # "move")
    BY Course DEF IInv, StageInv, Staged, Displaces, Exchanged, Undoes, Steps
  <2> QED
    BY <2>1 DEF IInv, UnseenSurvives, Loses, Authorized
<1> QED
  BY <1>1, <1>3, <1>4, <1>5, <1>6, <1>7 DEF IInv

-----------------------------------------------------------------------------
(* A call begins.                                                          *)

LEMMA Begins ==
  ASSUME IInv, NEW op, NEW over \in BOOLEAN, NEW want \in {NoHash, "old"}, NEW p,
         Begin(op, over, want, p), p \in Steps(op),
         op \in {"write", "copy", "move", "remove", "bundle", "snapshot", "restore"},
         p \notin Staged \cup Displaces \cup {"w_drop", "m_over", "m_verify", "m_drop"},
         p \in {"s_copy", "r_stage"} => left' = Paths,
         p \notin {"s_copy", "r_stage"} => left' = left,
         stage' \in {stage, Absent}, copies' \in {copies, {}}, snap' = snap
  PROVE  IInv'
<1> USE DEF Begin, fsVars
<1>1. TypeOK'
  <2>1. slipped' \in BOOLEAN
    BY Zenon
  <2>2. call' \in Calls /\ pc' \in Steps(call'.op) \cup {"idle"}
    BY DEF Calls
  <2>3. Paths \in Seq(Public) /\ Ids' = Ids /\ None \in Ids
    BY DEF Paths, Public, Ids, None, IInv, TypeOK
  <2>4. stage' = stage \/ (DOMAIN stage' = {} /\ stage' \in [DOMAIN stage' -> Copy1])
    BY DEF Absent
  <2>5. calls' \in 0..MaxCalls
    BY DEF IInv, TypeOK
  <2>6. seen' \in [id : Ids, ver : Nat]
    BY <2>3
  <2>7. copies' \subseteq Ids /\ left' \in Seq(Public)
    BY <2>3 DEF IInv, TypeOK
  <2> QED
    BY <2>1, <2>2, <2>3, <2>4, <2>5, <2>6, <2>7 DEF IInv, TypeOK
<1>2. NamesInv' /\ PlainInv'
  BY DEF IInv, NamesInv, PlainInv, Absent
<1>3. StageInv'
  BY DEF IInv, StageInv, Staged, Displaces, Exchanged, Undoes
<1>4. KeptInv'
  BY DEF IInv, KeptInv, Names, Public
<1>5. RestoreInv'
  <2>1. Paths # <<>>
    BY DEF Paths
  <2> QED
    BY <2>1 DEF IInv, RestoreInv, Steps, Staged, Public, Displaces
<1>6. SeenInv' /\ WindowInv'
  BY DEF SeenInv, WindowInv, Displaces, Exchanged, Undoes
<1>7. DestInv' /\ UnseenSurvives'
  BY DEF DestInv, UnseenSurvives, Displaces, Exchanged, Undoes
<1> QED
  BY <1>1, <1>2, <1>3, <1>4, <1>5, <1>6, <1>7 DEF IInv

-----------------------------------------------------------------------------
(* The staged object.                                                      *)

LEMMA Stages ==
  ASSUME IInv, NEW p, NEW q, NEW o \in Copy1,
         Step(p, q), StageObject(o), Plain(o), o.ver = 0 \/ call.op = "restore",
         p \notin Staged \cup Displaces \cup {"idle"}, q \in Staged, q \in Steps(call.op),
         UNCHANGED <<stage, snap, left>>,
         copies' = IF call.op = "restore" THEN copies \cup {ours'} ELSE copies,
         call.op = "restore" => left # <<>>
  PROVE  IInv'
<1> USE DEF Step, StageObject, Goto, argVars, histVars
<1>1. /\ obj \in Seq(Copy1) /\ obj' \in Seq(Copy1) /\ Len(obj') = Len(obj) + 1 /\ Len(obj) \in Nat
      /\ \A i \in 1..Len(obj) : obj'[i] = obj[i]
      /\ obj'[Len(obj) + 1] = o
  BY DEF IInv, TypeOK
<1>2. /\ Ids \subseteq Ids' /\ Len(obj) + 1 \in Ids' /\ Len(obj) + 1 \notin Ids /\ ours' = Len(obj) + 1
      /\ ours' # None
  BY <1>1 DEF Ids, None
<1>3. entry \in [Names -> Ids] /\ entry' = [entry EXCEPT !["tmp"] = ours']
  BY DEF IInv, TypeOK
<1>4. TypeOK'
  <2>1. slipped' \in BOOLEAN
    BY Zenon DEF IInv, TypeOK
  <2>2. seen' \in [id : Ids', ver : Nat]
    BY <1>2 DEF IInv, TypeOK
  <2>3. entry' \in [Names -> Ids'] /\ theirs' \in [Names -> Ids']
    <3>1. entry \in [Names -> Ids'] /\ theirs \in [Names -> Ids']
      BY <1>2 DEF IInv, TypeOK
    <3> QED
      BY <1>2, <1>3, <3>1
  <2>4. calls' \in 0..MaxCalls /\ others' \in 0..MaxOthers /\ left' \in Seq(Public)
    BY DEF IInv, TypeOK
  <2> QED
    BY <1>1, <1>2, <2>1, <2>2, <2>3, <2>4 DEF IInv, TypeOK
<1>5. NamesInv'
  BY <1>2, <1>3 DEF IInv, NamesInv, Names
<1>6. StageInv'
  BY <1>1, <1>2, <1>3 DEF StageInv, Staged, Displaces, Exchanged, Undoes, Names
<1>7. PlainInv'
  BY <1>1 DEF IInv, PlainInv
<1>8. entry["tmp"] = None
  BY DEF IInv, StageInv
<1>9. KeptInv'
  BY <1>3, <1>8 DEF IInv, KeptInv, Names, Public
<1>10. RestoreInv'
  BY <1>3, Course DEF IInv, RestoreInv, Names, Public, Steps, Staged
<1>11. SeenInv' /\ WindowInv'
  BY DEF SeenInv, WindowInv, Staged, Exchanged, Undoes
<1>12. DestInv' /\ UnseenSurvives'
  BY <1>3 DEF IInv, DestInv, UnseenSurvives, Names, Public, Staged, Displaces, Exchanged, Undoes
<1> QED
  BY <1>4, <1>5, <1>6, <1>7, <1>9, <1>10, <1>11, <1>12 DEF IInv

\* The staged object and the one it is to replace change names.
LEMMA Exchanges ==
  ASSUME IInv, NEW p, NEW q, NEW n \in Public, Step(p, q), p \in Staged,
         q \in {"w_verify", "c_verify", "r_drop"}, q \in Steps(call.op),
         n = "dst" \/ call.op = "restore", entry[n] # None,
         entry' = Swapped(entry, "tmp", n), UNCHANGED <<obj, kept, seenVars, snapVars>>
  PROVE  IInv'
<1> USE DEF Step, Goto, argVars, histVars, seenVars, snapVars
<1>1. /\ entry \in [Names -> Ids] /\ entry["tmp"] = ours /\ ours # None
      /\ call.op # "restore" => obj[ours].ver = 0
      /\ entry' = [entry EXCEPT !["tmp"] = entry[n], ![n] = ours]
  BY DEF IInv, TypeOK, StageInv, Swapped
<1>2. call.op = "restore" <=> q = "r_drop"
  BY DEF Steps
<1>3. TypeOK'
  <2>1. entry' \in [Names -> Ids]
    BY <1>1 DEF Names
  <2> QED
    BY <2>1, TypeRenames DEF IInv, TypeOK
<1>4. NamesInv' /\ StageInv' /\ PlainInv' /\ SeenInv' /\ UnseenSurvives'
  BY <1>1 DEF IInv, NamesInv, StageInv, PlainInv, SeenInv, UnseenSurvives, Names, Public,
     Staged, Displaces, Exchanged, Undoes
<1>5. KeptInv'
  BY <1>1 DEF IInv, KeptInv, Names, Public, Staged
<1>6. RestoreInv'
  BY <1>1, <1>2, Course DEF IInv, RestoreInv, Names, Public, Steps, Staged
<1>7. WindowInv'
  BY <1>1, <1>2 DEF WindowInv, Undoes, Exchanged, Names, Public
<1>8. DestInv'
  <2>1. call.op # "restore" => n = "dst" /\ entry'["dst"] = ours /\ entry'["tmp"] = entry["dst"]
    BY <1>1 DEF Names, Public
  <2>2. p \notin Exchanged \cup {"idle"}
    BY DEF Staged, Exchanged, Undoes
  <2>3. q # "idle" /\ (q \in Exchanged \/ call.op = "restore")
    BY <1>2 DEF Exchanged
  <2> QED
    BY <2>1, <2>2, <2>3 DEF IInv, DestInv
<1> QED
  BY <1>3, <1>4, <1>5, <1>6, <1>7, <1>8 DEF IInv

\* The staged object takes the name of the destination.
LEMMA Publishes ==
  ASSUME IInv, pc \in Staged, call.op \in {"write", "copy", "bundle"}, Publish,
         entry' = [entry EXCEPT !["dst"] = ours, !["tmp"] = None],
         UNCHANGED <<kept, unseen, snapVars>>
  PROVE  IInv'
<1> USE DEF Publish, End, argVars, seenVars, snapVars
<1>1. /\ entry \in [Names -> Ids] /\ entry["tmp"] = ours /\ ours # None
      /\ pc' = "idle" /\ res' \in {"ok", "broken"}
  BY DEF IInv, TypeOK, StageInv
<1>2. entry' \in [Names -> Ids] /\ entry'["dst"] = ours /\ entry'["tmp"] = None
  BY <1>1 DEF Names, Public, Ids, None, IInv, TypeOK
<1>3. TypeOK'
  BY <1>1, <1>2, TypeRenames DEF IInv, TypeOK
<1>4. NamesInv' /\ StageInv' /\ PlainInv' /\ SeenInv' /\ UnseenSurvives' /\ KeptInv'
  BY <1>1, <1>2 DEF IInv, NamesInv, StageInv, PlainInv, SeenInv, UnseenSurvives, KeptInv,
     Names, Public, Staged, Displaces, Exchanged, Undoes
<1>5. RestoreInv' /\ WindowInv' /\ DestInv'
  BY <1>1, <1>2 DEF RestoreInv, WindowInv, DestInv, Exchanged, Undoes
<1> QED
  BY <1>3, <1>4, <1>5 DEF IInv

\* What the destination was is removed.
LEMMA Drops ==
  ASSUME IInv, pc \in {"w_drop", "c_drop"}, Publish, entry' = [entry EXCEPT !["tmp"] = None],
         unseen' = unseen \cup Loses(entry["tmp"]), UNCHANGED <<kept, snapVars>>
  PROVE  IInv'
<1> USE DEF Publish, End, argVars, seenVars, snapVars
<1>1. /\ entry \in [Names -> Ids] /\ pc' = "idle" /\ res' \in {"ok", "broken"}
      /\ call.op \in {"write", "copy"} /\ entry["tmp"] = seen.id
      /\ call.op = "write" => obj[seen.id].ver = seen.ver
  BY Course DEF IInv, TypeOK, SeenInv, Steps
<1>2. entry' \in [Names -> Ids] /\ unseen' = unseen /\ entry'["dst"] = entry["dst"]
  BY <1>1, LosesId DEF IInv, Names, Public, Loses, Authorized
<1>3. TypeOK'
  BY <1>1, <1>2, TypeRenames DEF IInv, TypeOK
<1>4. NamesInv' /\ StageInv' /\ PlainInv' /\ SeenInv' /\ UnseenSurvives' /\ KeptInv'
  BY <1>1, <1>2 DEF IInv, NamesInv, StageInv, PlainInv, SeenInv, UnseenSurvives, KeptInv,
     Names, Public, Staged, Displaces, Exchanged, Undoes
<1>5. RestoreInv' /\ WindowInv' /\ DestInv'
  BY <1>1, <1>2 DEF IInv, RestoreInv, WindowInv, DestInv, Exchanged, Undoes
<1> QED
  BY <1>3, <1>4, <1>5 DEF IInv

\* The exchange is undone, and the staged object removed.
LEMMA RollsBack ==
  ASSUME IInv, NEW p, RollBack(p), p \subseteq Undoes, UNCHANGED snapVars
  PROVE  IInv'
<1> USE DEF RollBack, End, argVars, seenVars, snapVars
<1>1. /\ entry \in [Names -> Ids] /\ pc' = "idle" /\ res' = "failed"
      /\ call.op \in {"write", "copy"} /\ pc \in Exchanged /\ pc # "w_drop" /\ pc \in Undoes
  BY Course DEF IInv, TypeOK, Steps, Undoes, Exchanged
<1>2. entry' = [entry EXCEPT !["dst"] = entry["tmp"], !["tmp"] = None]
  BY <1>1 DEF Names, Public
<1>3. entry' \in [Names -> Ids] /\ entry'["dst"] = entry["tmp"] /\ entry'["tmp"] = None
  BY <1>1, <1>2 DEF Names, Public, Ids, None, IInv, TypeOK
<1>4. unseen' = unseen \cup Loses(entry["dst"]) /\ entry["dst"] \in Ids
  BY <1>1 DEF Names, Public
<1>5. TypeOK'
  BY <1>1, <1>3, <1>4, TypeRenames, LosesId DEF IInv, TypeOK
<1>6. NamesInv' /\ StageInv' /\ PlainInv' /\ SeenInv' /\ KeptInv'
  BY <1>1, <1>2, <1>3 DEF IInv, NamesInv, StageInv, PlainInv, SeenInv, KeptInv,
     Names, Public, Staged, Displaces, Exchanged, Undoes
<1>7. RestoreInv' /\ WindowInv'
  BY <1>1 DEF RestoreInv, WindowInv, Exchanged, Undoes
<1>8. DestInv'
  BY <1>1, <1>3 DEF IInv, DestInv, WindowInv, Exchanged, Undoes
<1>9. UnseenSurvives'
  BY <1>1, <1>4 DEF IInv, UnseenSurvives, WindowInv, Loses, Authorized
<1> QED
  BY <1>5, <1>6, <1>7, <1>8, <1>9 DEF IInv

-----------------------------------------------------------------------------
(* A removal that breaks off, and what stays under the staging name.       *)

\* At most children are gone.
Shrunk ==
  /\ obj' \in Seq(Copy1) /\ Len(obj') = Len(obj)
  /\ \A i \in 1..Len(obj) : /\ obj'[i].kind = obj[i].kind /\ obj'[i].text = obj[i].text
                            /\ obj'[i].ver = obj[i].ver /\ obj'[i].kids \subseteq obj[i].kids

LEMMA SameObjects == ASSUME TypeOK, UNCHANGED obj PROVE Shrunk
  BY DEF Shrunk, TypeOK

LEMMA Breaking ==
  ASSUME TypeOK, NEW n \in Names, BreaksOff(n)
  PROVE  Shrunk /\ torn' \subseteq Ids
<1>1. entry[n] \in 1..Len(obj) /\ obj \in Seq(Copy1) /\ obj[entry[n]] \in Copy1
  BY DEF TypeOK, BreaksOff, Ids, None
<1>2. PICK ks \in SUBSET obj[entry[n]].kids :
        /\ obj' = [obj EXCEPT ![entry[n]].kids = @ \ ks]
        /\ torn' = IF ks = {} THEN torn ELSE torn \cup {entry[n]}
  BY DEF BreaksOff
<1>3. [obj[entry[n]] EXCEPT !.kids = @ \ ks] \in Copy1
  BY <1>1 DEF Copy1
<1>4. obj' \in Seq(Copy1) /\ Len(obj') = Len(obj)
  BY <1>1, <1>2, <1>3
<1>5. \A i \in 1..Len(obj) : /\ obj[i] \in Copy1 /\ (i # entry[n] => obj'[i] = obj[i])
                             /\ i = entry[n] => obj'[i] = [obj[i] EXCEPT !.kids = @ \ ks]
  <2>1. DOMAIN obj = 1..Len(obj) /\ obj \in [1..Len(obj) -> Copy1]
    BY <1>1
  <2> QED
    BY <1>1, <1>2, <2>1
<1>6. Shrunk
  <2>1. \A r \in Copy1 : LET q == [r EXCEPT !.kids = @ \ ks]
                         IN  /\ q.kind = r.kind /\ q.text = r.text
                             /\ q.ver = r.ver /\ q.kids \subseteq r.kids
    BY DEF Copy1
  <2> QED
    BY <1>4, <1>5, <2>1 DEF Shrunk
<1> QED
  BY <1>1, <1>2, <1>6 DEF TypeOK, Ids

\* The staging name is left to the operator, and the call ends.
LEMMA Preserved ==
  ASSUME IInv, pc # "idle", Shrunk, PreserveStaging, pc' = "idle",
         res' \in {"failed", "broken", "crashed"},
         call.op = "restore" \/ slipped \/ entry["dst"] # ours \/ res' = "crashed",
         torn' \subseteq Ids, UNCHANGED <<argVars, seenVars, theirs, slipped, snapVars>>
  PROVE  IInv'
<1> USE DEF PreserveStaging, argVars, seenVars, snapVars
<1>1. /\ entry \in [Names -> Ids] /\ entry' = [entry EXCEPT !["tmp"] = None] /\ Ids' = Ids
      /\ entry["tmp"] \in Ids /\ None \in Ids
  BY DEF IInv, TypeOK, Shrunk, Ids, Names, None
<1>2. TypeOK'
  <2>1. slipped' \in BOOLEAN
    BY Zenon DEF IInv, TypeOK
  <2>2. entry' \in [Names -> Ids] /\ kept' \subseteq Ids \ {None}
    BY <1>1 DEF IInv, TypeOK
  <2> QED
    BY <1>1, <2>1, <2>2 DEF IInv, TypeOK, Shrunk
<1>3. NamesInv' /\ StageInv' /\ SeenInv' /\ WindowInv'
  BY <1>1 DEF IInv, NamesInv, StageInv, SeenInv, WindowInv, Staged, Displaces, Exchanged, Undoes, Names
<1>4. PlainInv'
  BY DEF IInv, PlainInv, Plain, Shrunk
<1>5. KeptInv' /\ RestoreInv'
  BY <1>1 DEF IInv, KeptInv, RestoreInv, Names, Public
<1>6. DestInv'
  BY <1>1 DEF IInv, DestInv, Names, Public, Exchanged, Undoes
<1>7. UnseenSurvives'
  BY DEF IInv, UnseenSurvives
<1> QED
  BY <1>2, <1>3, <1>4, <1>5, <1>6, <1>7 DEF IInv

\* A removal breaks off, and the names stay.
LEMMA Frays ==
  ASSUME IInv, Shrunk, torn' \subseteq Ids,
         UNCHANGED <<entry, kept, argVars, seenVars, theirs, unseen, slipped, snapVars>>,
         \/ pc \in {"d_tree", "m_drop"} /\ pc' = "idle" /\ res' \in {"failed", "broken"}
         \/ pc = "m_drop" /\ pc' = "m_restore" /\ res' = res
         \/ pc = "c_drop" /\ pc' = "c_restore" /\ res' = res /\ entry["dst"] = ours
  PROVE  IInv'
<1> USE DEF argVars, seenVars, snapVars
<1>1. /\ Ids' = Ids /\ ours \in Ids /\ call.op \in {"remove", "move", "copy"}
      /\ pc = "c_drop" <=> call.op = "copy"
  BY Course DEF IInv, TypeOK, Shrunk, Ids, Steps
<1>2. TypeOK'
  <2>1. slipped' \in BOOLEAN
    BY Zenon DEF IInv, TypeOK
  <2>2. pc' \in Steps(call'.op) \cup {"idle"}
    BY Course DEF IInv, TypeOK, Steps
  <2> QED
    BY <1>1, <2>1, <2>2 DEF IInv, TypeOK, Shrunk
<1>3. NamesInv' /\ SeenInv' /\ UnseenSurvives'
  BY DEF IInv, NamesInv, SeenInv, UnseenSurvives
<1>4. StageInv'
  BY DEF IInv, StageInv, Staged, Displaces, Exchanged, Undoes
<1>5. PlainInv'
  BY DEF IInv, PlainInv, Plain, Shrunk
<1>6. KeptInv' /\ RestoreInv'
  BY <1>1 DEF IInv, KeptInv, RestoreInv
<1>7. WindowInv'
  BY <1>1 DEF IInv, StageInv, WindowInv, Shrunk, Exchanged, Undoes, Ids, None
<1>8. DestInv'
  BY <1>1 DEF IInv, DestInv, Exchanged, Undoes
<1> QED
  BY <1>2, <1>3, <1>4, <1>5, <1>6, <1>7, <1>8 DEF IInv

-----------------------------------------------------------------------------
(* move_path, remove_path and make_directory use no staging name.          *)

LEMMA Renames ==
  ASSUME IInv, call.op \in {"move", "remove"}, entry' \in [Names -> Ids], NamesInv', KeptInv',
         entry'["tmp"] = None, pc' \in {"idle", "m_verify"}, pc' = "m_verify" => pc = "m_over",
         res' \in {res, "ok", "failed", "broken"}, slipped \/ unseen' = {}, unseen' \subseteq Ids,
         UNCHANGED <<obj, kept, argVars, seenVars, torn, slipped, theirs, snapVars>>
  PROVE  IInv'
<1> USE DEF argVars, seenVars, snapVars
<1>1. TypeOK'
  <2>1. pc' \in Steps(call.op) \cup {"idle"}
    BY Course DEF IInv, TypeOK, Steps
  <2> QED
    BY <2>1, TypeRenames DEF IInv, TypeOK
<1>2. StageInv' /\ PlainInv' /\ SeenInv' /\ UnseenSurvives'
  BY DEF IInv, StageInv, PlainInv, SeenInv, UnseenSurvives, Staged, Displaces, Exchanged, Undoes
<1>3. RestoreInv' /\ WindowInv' /\ DestInv'
  BY DEF IInv, RestoreInv, SeenInv, WindowInv, DestInv, Exchanged, Undoes
<1> QED
  BY <1>1, <1>2, <1>3 DEF IInv

LEMMA MovesNew == ASSUME IInv, MoveNew, UNCHANGED snapVars PROVE IInv'
<1> USE DEF MoveNew, Publish, End, Vacant
<1>1. /\ entry \in [Names -> Ids] /\ call.op = "move" /\ entry["tmp"] = None
      /\ None \in Ids /\ pc' = "idle" /\ res' \in {"ok", "broken"}
      /\ entry' = [entry EXCEPT !["dst"] = entry["src"], !["src"] = None]
  BY SMTT(30), Course DEF IInv, TypeOK, StageInv, Steps, Staged, Displaces, Exchanged, Undoes, Ids, None
<1>2. entry' \in [Names -> Ids] /\ entry'["tmp"] = None /\ NamesInv'
  BY <1>1 DEF IInv, NamesInv, Names, Public
<1>3. unseen' = unseen
  BY DEF Loses
<1>4. KeptInv'
  BY <1>1 DEF KeptInv
<1> QED
  BY <1>1, <1>2, <1>3, <1>4, Renames DEF IInv, TypeOK, UnseenSurvives

\* The two names of a move change places.
LEMMA Swaps ==
  ASSUME IInv, call.op = "move", entry' = Swapped(entry, "src", "dst"), UNCHANGED <<kept, theirs>>,
         entry["tmp"] = None, pc # "idle", res' # "crashed"
  PROVE  entry' \in [Names -> Ids] /\ entry'["tmp"] = None /\ NamesInv' /\ KeptInv'
<1>1. /\ entry \in [Names -> Ids]
      /\ entry' = [entry EXCEPT !["src"] = entry["dst"], !["dst"] = entry["src"]]
  BY DEF IInv, TypeOK, Swapped
<1> QED
  BY <1>1 DEF IInv, NamesInv, KeptInv, Names, Public

LEMMA Moving ==
  ASSUME IInv, pc \in Steps("move")
  PROVE  call.op = "move" /\ entry["tmp"] = None /\ pc # "idle"
  BY Course DEF IInv, StageInv, Steps, Staged, Displaces, Exchanged, Undoes

LEMMA MovesOver == ASSUME IInv, MoveExchange, UNCHANGED snapVars PROVE IInv'
<1> USE DEF MoveExchange, Step, Goto, histVars
<1>1. call.op = "move" /\ entry["tmp"] = None /\ pc # "idle" /\ res' # "crashed"
  BY Moving DEF Steps, IInv, KeptInv
<1>2. entry' \in [Names -> Ids] /\ entry'["tmp"] = None /\ NamesInv' /\ KeptInv'
  BY <1>1, Swaps
<1> QED
  BY <1>1, <1>2, Renames DEF IInv, TypeOK, UnseenSurvives

LEMMA MovesBack == ASSUME IInv, MoveUndo, UNCHANGED snapVars PROVE IInv'
<1> USE DEF MoveUndo, End, NothingElse
<1>1. call.op = "move" /\ entry["tmp"] = None /\ pc # "idle" /\ pc' = "idle" /\ res' = "failed"
  BY Moving DEF Steps
<1>2. entry' \in [Names -> Ids] /\ entry'["tmp"] = None /\ NamesInv' /\ KeptInv'
  <2>1. CASE entry' = entry
    BY <1>1, <2>1 DEF IInv, TypeOK, NamesInv, KeptInv
  <2> QED
    BY <1>1, <2>1, Swaps
<1> QED
  BY <1>1, <1>2, Renames DEF IInv, TypeOK, UnseenSurvives

\* What is removed under a public name.
LEMMA Removing ==
  ASSUME IInv, NEW n \in Public, Removes(n), Publish, call.op \in {"move", "remove"},
         pc \in Steps(call.op), ~slipped => Loses(entry[n]) = {}, UNCHANGED snapVars
  PROVE  IInv'
<1> USE DEF Removes, Publish, End
<1>1. /\ entry \in [Names -> Ids] /\ entry["tmp"] = None /\ None \in Ids
      /\ pc' = "idle" /\ res' \in {"ok", "broken"} /\ entry[n] \in Ids
  <2>1. entry \in [Names -> Ids] /\ None \in Ids /\ n \in Names
    BY DEF IInv, TypeOK, Ids, None, Names
  <2>2. pc \notin Staged \cup Displaces
    BY DEF Steps, Staged, Displaces, Exchanged, Undoes
  <2>3. entry["tmp"] = None
    BY <2>2 DEF IInv, StageInv
  <2> QED
    BY <2>1, <2>3
<1>2. entry' \in [Names -> Ids] /\ entry'["tmp"] = None /\ NamesInv'
  <2>1. entry' = [entry EXCEPT ![n] = None] /\ n \in Names /\ n # "tmp" /\ "tmp" \in Names
    BY DEF Names, Public
  <2>2. entry' \in [Names -> Ids] /\ entry'["tmp"] = None
    BY <1>1, <2>1
  <2>3. \A m \in Names : entry'[m] = IF m = n THEN None ELSE entry[m]
    BY <1>1, <2>1
  <2> QED
    BY <2>2, <2>3 DEF IInv, NamesInv
<1>3. unseen' \subseteq Ids /\ (slipped \/ unseen' = {})
  BY <1>1, LosesId DEF IInv, TypeOK, UnseenSurvives
<1>4. KeptInv'
  BY <1>1 DEF KeptInv
<1> QED
  BY <1>1, <1>2, <1>3, <1>4, Renames

LEMMA MovesDrop == ASSUME IInv, MoveDrop, UNCHANGED snapVars PROVE IInv'
<1>1. call.op = "move" /\ pc \in Steps("move") /\ pc = "m_drop"
  BY Moving DEF MoveDrop, Steps
<1>2. ~slipped => Loses(entry["src"]) = {}
  BY <1>1 DEF IInv, WindowInv, SeenInv, Loses, Authorized
<1> QED
  BY <1>1, <1>2, Removing DEF MoveDrop, Public

LEMMA Removed == ASSUME IInv, RemoveDrop, UNCHANGED snapVars PROVE IInv'
<1>1. call.op = "remove" /\ pc \in Steps("remove")
  BY Course DEF RemoveDrop, Steps, IInv
<1>2. Loses(entry["dst"]) = {}
  BY <1>1 DEF Loses, Authorized
<1> QED
  BY <1>1, <1>2, Removing DEF RemoveDrop, Public

LEMMA Makes == ASSUME IInv, NEW e \in BOOLEAN, MakeDirectory(e), UNCHANGED snapVars PROVE IInv'
<1> USE DEF MakeDirectory, End, seenVars, snapVars
<1>1. /\ pc' = "idle" /\ call' = [NoCall EXCEPT !.op = "mkdir"] /\ call'.op = "mkdir"
      /\ call' \in Calls /\ res' = "ok"
  BY DEF NoCall, Calls, NoHash
<1>2. Object("dir", "none", {}) \in Copy1 /\ Plain(Object("dir", "none", {}))
  BY DEF Object, Copy1, Texts, Plain
<1>3. /\ obj' \in Seq(Copy1) /\ Len(obj) <= Len(obj') /\ Ids \subseteq Ids'
      /\ \A i \in 1..Len(obj') : Plain(obj'[i])
  <2>1. CASE entry["dst"] = None
    <3>1. /\ obj \in Seq(Copy1) /\ obj' = Append(obj, Object("dir", "none", {}))
          /\ Len(obj) \in Nat /\ \A i \in 1..Len(obj) : Plain(obj[i])
      BY <2>1 DEF IInv, TypeOK, PlainInv
    <3>2. /\ obj' \in Seq(Copy1) /\ Len(obj') = Len(obj) + 1
          /\ \A i \in 1..Len(obj) : obj'[i] = obj[i]
          /\ obj'[Len(obj) + 1] = Object("dir", "none", {})
      BY <3>1, <1>2
    <3> QED
      BY <3>1, <3>2, <1>2 DEF Ids
  <2>2. CASE entry["dst"] # None
    BY <2>2 DEF IInv, TypeOK, PlainInv, Ids
  <2> QED
    BY <2>1, <2>2
<1>4. entry' \in [Names -> Ids'] /\ NamesInv' /\ entry'["tmp"] = None
  <2>1. Len(obj) \in Nat /\ obj \in Seq(Copy1) /\ entry \in [Names -> Ids] /\ entry["tmp"] = None
    BY DEF IInv, TypeOK, StageInv, Staged, Displaces, Exchanged, Undoes
  <2>2. CASE entry["dst"] = None
    <3>1. /\ Len(obj) + 1 \in Ids' /\ Len(obj) + 1 \notin Ids /\ Len(obj) + 1 # None
          /\ entry' = [entry EXCEPT !["dst"] = Len(obj) + 1]
      BY <2>1, <2>2, <1>2 DEF Ids, None
    <3> QED
      BY <1>3, <2>1, <3>1 DEF IInv, NamesInv, Names, Public
  <2>3. CASE entry["dst"] # None
    BY <2>1, <2>3 DEF IInv, NamesInv, Ids
  <2> QED
    BY <2>2, <2>3
<1>5. TypeOK'
  <2>1. slipped' \in BOOLEAN
    BY Zenon DEF IInv, TypeOK
  <2>2. theirs' \in [Names -> Ids'] /\ seen' \in [id : Ids', ver : Nat]
    BY <1>3 DEF IInv, TypeOK
  <2> QED
    BY <1>1, <1>3, <1>4, <2>1, <2>2 DEF IInv, TypeOK
<1>6. StageInv' /\ KeptInv' /\ RestoreInv' /\ SeenInv' /\ WindowInv' /\ DestInv' /\ UnseenSurvives'
  BY <1>1, <1>4 DEF IInv, StageInv, KeptInv, RestoreInv, SeenInv, WindowInv, DestInv,
     UnseenSurvives, Staged, Displaces, Exchanged, Undoes
<1>7. PlainInv'
  BY <1>3 DEF IInv, PlainInv
<1> QED
  BY <1>4, <1>5, <1>6, <1>7 DEF IInv

-----------------------------------------------------------------------------
(* Other programs.                                                         *)

\* The objects there are stay; the name is given to a new one, or to none.
LEMMA OtherNames ==
  ASSUME IInv, NEW n \in Public, Other(n), NEW i, entry' = [entry EXCEPT ![n] = i],
         obj' \in Seq(Copy1), Len(obj) <= Len(obj'), \A k \in 1..Len(obj) : obj'[k] = obj[k],
         \A k \in 1..Len(obj') : Plain(obj'[k]),
         i \in Ids', i = None => entry[n] # None, i # None => i \notin Ids,
         UNCHANGED snapVars
  PROVE  IInv'
<1> USE DEF Other, seenVars, snapVars
<1>1. /\ Ids \subseteq Ids' /\ entry \in [Names -> Ids] /\ None \in Ids /\ theirs \in [Names -> Ids]
      /\ Names = {"src", "dst", "tmp"} /\ Public = {"src", "dst"} /\ ours \in Ids /\ kept \subseteq Ids
  <2>1. Len(obj) \in Nat /\ Len(obj') \in Nat
    BY DEF IInv, TypeOK
  <2>2. Ids \subseteq Ids' /\ None \in Ids
    BY <2>1 DEF Ids, None
  <2>3. Names = {"src", "dst", "tmp"} /\ Public = {"src", "dst"}
    BY DEF Names, Public
  <2> QED
    BY <2>2, <2>3 DEF IInv, TypeOK
<1>2. /\ entry' \in [Names -> Ids'] /\ entry'[n] = i /\ i # entry[n]
      /\ \A m \in Names \ {n} : entry'[m] = entry[m]
  BY <1>1
<1>3. /\ \A m \in Names : theirs'[m] = IF m = n THEN i
                                       ELSE IF theirs[m] = entry[n] THEN None ELSE theirs[m]
      /\ theirs' \in [Names -> Ids']
  BY <1>1, <1>2
<1>4. slipped' = (slipped \/ Exposed(n)) /\ slipped' \in BOOLEAN
  <2>1. entry'[n] # entry[n]
    BY <1>2
  <2>2. slipped \in BOOLEAN
    BY Zenon DEF IInv, TypeOK
  <2> QED
    BY <2>1, <2>2 DEF Exposed
<1>5. TypeOK'
  <2>1. seen' \in [id : Ids', ver : Nat] /\ others' \in 0..MaxOthers
    BY <1>1 DEF IInv, TypeOK
  <2> QED
    BY <1>1, <1>2, <1>3, <1>4, <2>1 DEF IInv, TypeOK
<1>6. NamesInv'
  BY <1>1, <1>2 DEF IInv, NamesInv
<1>7. StageInv'
  <2>1. pc \in Staged => ours # None
    BY DEF IInv, StageInv
  <2>2. pc \in Staged => obj'[ours] = obj[ours]
    BY SMTT(30), <1>1, <2>1 DEF Ids, None
  <2>3. entry'["tmp"] = entry["tmp"]
    BY <1>1, <1>2
  <2> QED
    BY <2>2, <2>3 DEF IInv, StageInv
<1>8. PlainInv'
  BY DEF IInv, PlainInv
<1>9. KeptInv'
  BY <1>1, <1>2, <1>3 DEF IInv, KeptInv
<1>10. RestoreInv'
  BY <1>1, <1>2, <1>3 DEF IInv, RestoreInv, NamesInv
<1>11. SeenInv'
  BY SMTT(30), <1>1, <1>2 DEF IInv, SeenInv, StageInv, Displaces, Exchanged, Ids, None
<1>12. WindowInv'
  <2>1. SUFFICES ASSUME ~slipped, ~Exposed(n) PROVE WindowInv'
    BY <1>4 DEF WindowInv
  <2>2. pc \notin Undoes /\ (pc = "m_drop" => n # "src")
    BY <2>1, Course DEF Exposed, Undoes, IInv, Steps
  <2>3. pc \in Exchanged \ {"w_drop"} /\ entry'["dst"] = ours /\ ours # None => obj'[ours].ver = 0
    BY <1>1, <1>2, <2>1 DEF IInv, WindowInv, Ids, None
  <2>4. pc \in {"m_over", "m_verify", "m_drop"} => obj'[seen.id].kids = {}
    BY SMTT(30), <2>1 DEF IInv, WindowInv, SeenInv, TypeOK, Ids, None
  <2>5. pc = "m_drop" => entry'["src"] = seen.id
    BY <1>1, <1>2, <2>1, <2>2 DEF IInv, WindowInv
  <2> QED
    BY <2>2, <2>3, <2>4, <2>5 DEF WindowInv
<1>13. DestInv'
  <2>1. SUFFICES ASSUME ~slipped, call.op \in {"write", "copy", "bundle"} PROVE DestInv'
    BY <1>4 DEF DestInv
  <2>2. CASE n = "dst"
    <3>1. theirs'["dst"] = i /\ entry'["dst"] = i
      BY <1>1, <1>2, <1>3, <2>2
    <3>2. pc \in Exchanged => i # ours
      BY <1>1 DEF IInv, StageInv
    <3> QED
      BY <3>1, <3>2 DEF DestInv
  <2>3. CASE n = "src"
    <3>1. entry'["dst"] = entry["dst"] /\ entry'["tmp"] = entry["tmp"]
      BY <1>1, <1>2, <2>3
    <3>2. theirs["dst"] = entry["src"] /\ entry["dst"] = theirs["dst"] => theirs'["dst"] = entry["dst"]
      BY <1>1, <1>3, <2>3 DEF IInv, NamesInv
    <3>3. theirs["dst"] # entry["src"] => theirs'["dst"] = theirs["dst"]
      BY <1>1, <1>3, <2>3
    <3>4. pc \in Exchanged => entry["tmp"] # None /\ ours # None
      BY DEF IInv, StageInv, Displaces
    <3>5. pc \in Exchanged /\ entry["dst"] = ours => theirs["dst"] # entry["src"]
      BY <1>1, <2>1, <3>4 DEF IInv, NamesInv, DestInv
    <3> QED
      BY <2>1, <3>1, <3>2, <3>3, <3>5 DEF IInv, DestInv
  <2> QED
    BY <1>1, <2>2, <2>3
<1>14. UnseenSurvives'
  BY <1>4 DEF IInv, UnseenSurvives
<1> QED
  BY <1>5, <1>6, <1>7, <1>8, <1>9, <1>10, <1>11, <1>12, <1>13, <1>14 DEF IInv

\* What a name stands for is changed in place.
LEMMA OtherInside ==
  ASSUME IInv, NEW n \in Public, Other(n), entry' = entry, entry[n] # None,
         obj' \in Seq(Copy1), Len(obj') = Len(obj),
         \A k \in 1..Len(obj) : k # entry[n] => obj'[k] = obj[k],
         Plain(obj'[entry[n]]), IsDir(n) \/ obj'[entry[n]].kids = obj[entry[n]].kids,
         UNCHANGED snapVars
  PROVE  IInv'
<1> USE DEF Other, seenVars, snapVars
<1>1. /\ Ids = Ids' /\ entry \in [Names -> Ids] /\ None \in Ids /\ theirs \in [Names -> Ids]
      /\ Names = {"src", "dst", "tmp"} /\ Public = {"src", "dst"} /\ ours \in Ids
  BY DEF IInv, TypeOK, Ids, None, Names, Public
<1>2. /\ \A m \in Names : theirs'[m] = IF m = n THEN entry[n] ELSE theirs[m]
      /\ theirs' \in [Names -> Ids]
  BY <1>1
<1>3. slipped' = (slipped \/ Exposed(n) \/ ExposedInside(n)) /\ slipped' \in BOOLEAN
  <2>1. slipped \in BOOLEAN
    BY Zenon DEF IInv, TypeOK
  <2> QED
    BY <2>1 DEF Exposed, ExposedInside, IsDir, Is
<1>4. TypeOK'
  <2>1. others' \in 0..MaxOthers
    BY DEF IInv, TypeOK
  <2> QED
    BY <1>1, <1>2, <1>3, <2>1 DEF IInv, TypeOK
<1>5. entry["tmp"] # entry[n]
  BY <1>1 DEF IInv, NamesInv
<1>6. NamesInv' /\ UnseenSurvives'
  BY <1>3 DEF IInv, NamesInv, UnseenSurvives
<1>7. StageInv'
  BY <1>1, <1>5 DEF IInv, StageInv, Ids, None
<1>8. PlainInv'
  BY DEF IInv, PlainInv
<1>9. KeptInv'
  BY <1>1, <1>2 DEF IInv, KeptInv
<1>10. RestoreInv'
  BY <1>1, <1>2 DEF IInv, RestoreInv
<1>11. SeenInv'
  BY <1>1, <1>5 DEF IInv, SeenInv, StageInv, Displaces, Exchanged, Ids, None
<1>12. WindowInv'
  <2>1. SUFFICES ASSUME ~slipped, ~Exposed(n), ~ExposedInside(n) PROVE WindowInv'
    BY <1>3 DEF WindowInv
  <2>2. pc \notin Undoes /\ (pc = "m_drop" => entry["src"] = seen.id)
    BY <2>1 DEF Exposed, Undoes, IInv, WindowInv
  <2>3. pc \in Exchanged \ {"w_drop"} /\ entry["dst"] = ours /\ ours # None => obj'[ours].ver = 0
    BY <1>1, <2>1, <2>2 DEF IInv, WindowInv, ExposedInside, Exchanged, Ids, None
  <2>4. pc \in {"m_over", "m_verify", "m_drop"} => obj'[seen.id].kids = {}
    <3>1. SUFFICES ASSUME pc \in {"m_over", "m_verify", "m_drop"} PROVE obj'[seen.id].kids = {}
      OBVIOUS
    <3>2. call.op = "move" /\ ~IsDir(n) /\ seen.id \in 1..Len(obj) /\ obj[seen.id].kids = {}
      BY SMTT(30), <2>1, <3>1, Course DEF Steps, ExposedInside, IInv, WindowInv, SeenInv, TypeOK, Ids, None
    <3> QED
      BY <3>2
  <2> QED
    BY <2>2, <2>3, <2>4 DEF WindowInv
<1>13. DestInv'
  <2>1. SUFFICES ASSUME ~slipped, ~ExposedInside(n), call.op \in {"write", "copy", "bundle"}
        PROVE DestInv'
    BY <1>3 DEF DestInv
  <2>2. theirs'["dst"] = IF n = "dst" THEN entry["dst"] ELSE theirs["dst"]
    BY <1>1, <1>2
  <2>3. CASE n # "dst"
    BY <2>1, <2>2, <2>3 DEF IInv, DestInv
  <2>4. CASE n = "dst" /\ pc \in Exchanged /\ entry["dst"] = ours
    <3>1. ~Exposed(n)  => pc = "w_drop"
      BY <2>1, <2>4 DEF ExposedInside, Exposed, Exchanged, Undoes
    <3> QED
      BY <1>3, <2>2, <2>4, <3>1 DEF DestInv, Exchanged, Undoes
  <2>5. CASE n = "dst" /\ ~(pc \in Exchanged /\ entry["dst"] = ours)
    BY <2>2, <2>5 DEF DestInv
  <2> QED
    BY <2>3, <2>4, <2>5
<1> QED
  BY <1>4, <1>6, <1>7, <1>8, <1>9, <1>10, <1>11, <1>12, <1>13 DEF IInv

LEMMA OtherPrograms == ASSUME IInv, OthersNext, UNCHANGED snapVars PROVE IInv'
<1>1. /\ obj \in Seq(Copy1) /\ entry \in [Names -> Ids] /\ Public \subseteq Names /\ Len(obj) \in Nat
      /\ \A k \in 1..Len(obj) : Plain(obj[k]) /\ obj[k] \in Copy1
  BY DEF IInv, TypeOK, PlainInv, Names
<1>2. ASSUME NEW n \in Public, NEW o \in Copy1, Put(n, o), Plain(o) PROVE IInv'
  <2>1. /\ obj' \in Seq(Copy1) /\ Len(obj') = Len(obj) + 1 /\ obj'[Len(obj) + 1] = o
        /\ \A k \in 1..Len(obj) : obj'[k] = obj[k]
    BY <1>1, <1>2 DEF Put
  <2>2. Len(obj) + 1 \in Ids' /\ Len(obj) + 1 \notin Ids /\ Len(obj) + 1 # None
    BY <1>1, <2>1 DEF Ids, None
  <2>3. \A k \in 1..Len(obj') : Plain(obj'[k])
    BY <1>1, <1>2, <2>1
  <2>4. Other(n) /\ entry' = [entry EXCEPT ![n] = Len(obj) + 1] /\ Len(obj) <= Len(obj')
    BY <1>1, <1>2, <2>1 DEF Put
  <2> QED
    BY <2>1, <2>2, <2>3, <2>4, OtherNames, Zenon
<1>3. ASSUME NEW n \in Public, Drop(n) PROVE IInv'
  <2>1. /\ None \in Ids' /\ Other(n) /\ entry' = [entry EXCEPT ![n] = None] /\ entry[n] # None
        /\ obj' \in Seq(Copy1) /\ Len(obj) <= Len(obj') /\ \A k \in 1..Len(obj) : obj'[k] = obj[k]
        /\ \A k \in 1..Len(obj') : Plain(obj'[k])
    BY <1>1, <1>3 DEF Drop, Ids, None
  <2> QED
    BY <2>1, OtherNames, Zenon
<1>4. ASSUME NEW n \in Public, Edit(n) PROVE IInv'
  <2>1. /\ entry[n] \in 1..Len(obj) /\ entry[n] # None /\ obj[entry[n]].kind = "file"
        /\ obj[entry[n]] \in Copy1 /\ obj[entry[n]].kids = {}
    BY <1>1, <1>4 DEF Edit, Is, Ids, None, Plain
  <2> DEFINE r == Changed(obj[entry[n]], "alien", obj[entry[n]].kids)
  <2>2. r \in Copy1 /\ r.kids = {} /\ Plain(r)
    BY <2>1 DEF Copy1, Texts, Plain, Changed
  <2>3. obj' = [obj EXCEPT ![entry[n]] = r]
    BY <1>4 DEF Edit
  <2> HIDE DEF r
  <2>4. /\ obj' \in Seq(Copy1) /\ Len(obj') = Len(obj) /\ obj'[entry[n]] = r
        /\ \A k \in 1..Len(obj) : k # entry[n] => obj'[k] = obj[k]
    <3>1. obj \in [1..Len(obj) -> Copy1]
      BY <1>1
    <3> QED
      BY <1>1, <2>1, <2>2, <2>3, <3>1
  <2> QED
    BY <1>4, <2>1, <2>2, <2>4, OtherInside DEF Edit
<1>5. ASSUME NEW n \in Public, Fill(n) PROVE IInv'
  <2>1. /\ entry[n] \in 1..Len(obj) /\ entry[n] # None /\ obj[entry[n]].kind = "dir"
        /\ obj[entry[n]] \in Copy1 /\ IsDir(n)
    BY <1>1, <1>5 DEF Fill, IsDir, Is, Ids, None
  <2>2. PICK k \in Kids : obj' = [obj EXCEPT ![entry[n]] = Changed(@, @.text, @.kids \cup {k})]
    BY <1>5 DEF Fill
  <2> DEFINE r == Changed(obj[entry[n]], obj[entry[n]].text, obj[entry[n]].kids \cup {k})
  <2>3. r \in Copy1 /\ r.kind = "dir"
    BY <2>1 DEF Copy1, Changed
  <2>4. obj' = [obj EXCEPT ![entry[n]] = r]
    BY <2>2
  <2> HIDE DEF r
  <2>5. /\ obj' \in Seq(Copy1) /\ Len(obj') = Len(obj) /\ obj'[entry[n]] = r
        /\ \A i \in 1..Len(obj) : i # entry[n] => obj'[i] = obj[i]
    <3>1. obj \in [1..Len(obj) -> Copy1]
      BY <1>1
    <3> QED
      BY <1>1, <2>1, <2>3, <2>4, <3>1
  <2>6. Plain(obj'[entry[n]])
    BY <2>3, <2>5 DEF Plain
  <2> QED
    BY <1>5, <2>1, <2>5, <2>6, OtherInside DEF Fill
<1>6. /\ \A t \in {"old", "alien"} : Object("file", t, {}) \in Copy1 /\ Plain(Object("file", t, {}))
      /\ Object("dir", "none", {}) \in Copy1 /\ Plain(Object("dir", "none", {}))
  BY DEF Object, Copy1, Texts, Plain
<1> QED
  BY <1>2, <1>3, <1>4, <1>5, <1>6 DEF OthersNext

-----------------------------------------------------------------------------
(* snapshot_create and snapshot_restore.                                   *)

\* Nothing but a snapshot changes.
LEMMA Snaps ==
  ASSUME IInv, UNCHANGED <<fsVars, argVars, seenVars, histVars, copies>>,
         pc' \in Steps(call.op) \cup {"idle"}, res' \in {res, "ok"},
         pc' \notin Staged \cup Displaces \cup {"w_drop", "m_over", "m_verify", "m_drop"},
         pc \in {"s_copy", "s_publish"} \/ (pc' = pc /\ res' = res),
         pc' \in {"s_copy"} => left' # <<>>, call.op = "restore" => left' = left,
         left' \in Seq(Public),
         \A s \in {stage', snap'} : /\ DOMAIN s \subseteq Public /\ s \in [DOMAIN s -> Copy1]
                                    /\ \A p \in DOMAIN s : Plain(s[p])
  PROVE  IInv'
<1> USE DEF fsVars, argVars, seenVars, histVars
<1>1. TypeOK'
  <2>1. slipped' \in BOOLEAN
    BY Zenon DEF IInv, TypeOK
  <2> QED
    BY <2>1 DEF IInv, TypeOK, Ids
<1>2. NamesInv' /\ PlainInv' /\ UnseenSurvives'
  BY DEF IInv, NamesInv, PlainInv, UnseenSurvives
<1>3. pc \notin Staged \cup Displaces
  BY DEF Staged, Displaces, Exchanged, Undoes
<1>4. StageInv' /\ KeptInv' /\ SeenInv' /\ WindowInv'
  BY <1>3 DEF IInv, StageInv, KeptInv, SeenInv, WindowInv, Displaces, Exchanged, Undoes
<1>5. RestoreInv'
  BY Course DEF IInv, RestoreInv, Steps, Staged, Displaces
<1>6. DestInv'
  BY Course DEF IInv, DestInv, Displaces, Exchanged, Undoes, Steps
<1> QED
  BY <1>1, <1>2, <1>4, <1>5, <1>6 DEF IInv

\* The paths a call has yet to treat.
LEMMA Rest ==
  ASSUME TypeOK, left # <<>>
  PROVE  /\ Head(left) \in Public /\ Tail(left) \in Seq(Public) /\ Len(left) \in Nat
         /\ Len(left) # 1 => Tail(left) # <<>>
<1>1. left \in Seq(Public)
  BY DEF TypeOK
<1>2. Head(left) \in Public /\ Tail(left) \in Seq(Public) /\ Len(Tail(left)) = Len(left) - 1
  BY <1>1, HeadTailProperties, Zenon
<1>3. Len(left) \in Nat
  BY <1>1
<1>4. Tail(left) = <<>> => Len(Tail(left)) = 0
  BY <1>2, EmptySeq, Zenon
<1>5. ASSUME Len(left) # 1 PROVE Tail(left) # <<>>
  <2>1. Len(Tail(left)) # 0
    BY <1>2, <1>3, <1>5, SMT
  <2> QED
    BY <1>4, <2>1, Zenon
<1> QED
  BY <1>2, <1>3, <1>5, Zenon

LEMMA Copies == ASSUME IInv, CreateCopy PROVE IInv'
<1> USE DEF CreateCopy, Step, Goto
<1>1. left # <<>> /\ left \in Seq(Public) /\ call.op = "snapshot" /\ left' = Tail(left)
  BY Course DEF IInv, TypeOK, RestoreInv, Steps
<1>2. Head(left) \in Public /\ left' \in Seq(Public) /\ (Len(left) # 1 => left' # <<>>)
  BY <1>1, Rest DEF IInv
<1> DEFINE n == Head(left)
           o == obj[entry[Head(left)]]
<1>3. o \in Copy1 /\ Plain(o)
  <2>1. entry[n] \in 1..Len(obj)
    <3>1. entry[n] # None
      BY DEF Copyable, Is
    <3>2. entry[n] \in Ids
      BY <1>2 DEF IInv, TypeOK, Names
    <3> QED
      BY <3>1, <3>2 DEF Ids, None
  <2> QED
    BY <2>1 DEF IInv, TypeOK, PlainInv
<1>4. stage' = With(stage, n, o)
  OBVIOUS
<1> HIDE DEF n, o
<1>5. /\ DOMAIN stage' \subseteq Public /\ stage' \in [DOMAIN stage' -> Copy1]
      /\ \A p \in DOMAIN stage' : Plain(stage'[p])
  <2>1. /\ DOMAIN stage \subseteq Public /\ stage \in [DOMAIN stage -> Copy1]
        /\ \A p \in DOMAIN stage : Plain(stage[p])
    BY DEF IInv, TypeOK, PlainInv
  <2>2. DOMAIN stage' = DOMAIN stage \cup {n} /\ n \in Public
    BY <1>2, <1>4 DEF With, n
  <2>3. \A p \in DOMAIN stage' : stage'[p] = IF p = n THEN o ELSE stage[p]
    BY <1>4 DEF With
  <2>4. \A p \in DOMAIN stage' : stage'[p] \in Copy1 /\ Plain(stage'[p])
    BY <1>3, <2>1, <2>2, <2>3
  <2>5. stage' = [p \in DOMAIN stage' |-> stage'[p]]
    BY <1>4 DEF With
  <2> QED
    BY <2>1, <2>2, <2>4, <2>5
<1>6. \A s \in {stage', snap'} : /\ DOMAIN s \subseteq Public /\ s \in [DOMAIN s -> Copy1]
                                 /\ \A p \in DOMAIN s : Plain(s[p])
  BY <1>5 DEF IInv, TypeOK, PlainInv
<1>7. /\ pc' \in Steps(call.op) \cup {"idle"} /\ pc = "s_copy" /\ res' = res
      /\ pc' \notin Staged \cup Displaces \cup {"w_drop", "m_over", "m_verify", "m_drop"}
      /\ pc' \in {"s_copy"} => left' # <<>>
  BY <1>1, <1>2 DEF Steps, Staged, Displaces, Exchanged, Undoes
<1> QED
  BY <1>1, <1>2, <1>6, <1>7, Snaps

LEMMA SnapPublishes == ASSUME IInv, CreatePublish PROVE IInv'
<1> USE DEF CreatePublish, End
<1>1. call.op = "snapshot" /\ pc = "s_publish" /\ pc' = "idle" /\ res' = "ok"
  BY Course DEF IInv, Steps
<1>2. \A s \in {stage', snap'} : /\ DOMAIN s \subseteq Public /\ s \in [DOMAIN s -> Copy1]
                                 /\ \A p \in DOMAIN s : Plain(s[p])
  BY DEF IInv, TypeOK, PlainInv, Absent
<1>3. left' \in Seq(Public) /\ UNCHANGED histVars
  BY DEF IInv, TypeOK, histVars
<1> QED
  BY <1>1, <1>2, <1>3, Snaps DEF Staged, Displaces, Exchanged, Undoes

LEMMA Deletes == ASSUME IInv, Delete PROVE IInv'
<1> USE DEF Delete, fileVars
<1>1. PICK ps \in SUBSET DOMAIN snap, ks \in SUBSET Kids :
        snap' = [p \in ps |-> [snap[p] EXCEPT !.kids = @ \ ks]]
  OBVIOUS
<1>4. \A p \in ps : LET c == [snap[p] EXCEPT !.kids = @ \ ks] IN c \in Copy1 /\ Plain(c)
  <2> TAKE p \in ps
  <2>1. snap[p] \in Copy1 /\ Plain(snap[p])
    BY DEF IInv, TypeOK, PlainInv
  <2> QED
    BY <2>1 DEF Copy1, Plain
<1>2. \A s \in {stage', snap'} : /\ DOMAIN s \subseteq Public /\ s \in [DOMAIN s -> Copy1]
                                 /\ \A p \in DOMAIN s : Plain(s[p])
  <2>1. DOMAIN snap' = ps /\ ps \subseteq Public
    BY <1>1 DEF IInv, TypeOK
  <2>2. \A p \in ps : snap'[p] \in Copy1 /\ Plain(snap'[p])
    BY <1>1, <1>4
  <2>3. snap' \in [ps -> Copy1]
    BY <1>1, <2>2
  <2> QED
    BY <2>1, <2>2, <2>3 DEF IInv, TypeOK, PlainInv
<1>3. left' \in Seq(Public) /\ pc' = "idle" /\ pc = "idle" /\ res' = res
  BY DEF IInv, TypeOK
<1> QED
  BY <1>2, <1>3, Snaps DEF Staged, Displaces, Exchanged, Undoes

\* One path is restored, and the call goes on to the next one or ends.
LEMMA NextPaths ==
  ASSUME IInv, NextPath, pc \in {"r_new", "r_drop"}, entry' \in [Names -> Ids], NamesInv',
         entry'["tmp"] = None, \A p \in Public : entry'[p] \in {entry[p]} \cup copies,
         UNCHANGED kept, unseen' = unseen
  PROVE  IInv'
<1> USE DEF NextPath, End, Goto, seenVars, argVars
<1>1. call.op = "restore" /\ left # <<>> /\ left \in Seq(Public)
  BY Course DEF IInv, TypeOK, RestoreInv, Steps
<1>2. /\ \/ pc' = "idle" /\ res' \in {"ok", "broken"} /\ theirs' = theirs
         \/ pc' = "r_stage" /\ res' = res /\ theirs' = entry' /\ left' # <<>>
      /\ pc' \in Steps(call.op) \cup {"idle"}
  <2>1. Len(left) \in Nat /\ (Len(left) # 1 => Tail(left) # <<>>)
    BY <1>1, Rest DEF IInv
  <2> QED
    BY <1>1, <2>1 DEF Steps
<1>3. TypeOK'
  <2>1. /\ kept' \subseteq Ids \ {None} /\ unseen' \subseteq Ids
        /\ DOMAIN snap' \subseteq Public /\ snap' \in [DOMAIN snap' -> Copy1]
    BY DEF IInv, TypeOK
  <2>2. res' \in {res, "ok", "failed", "broken", "crashed"} /\ (theirs' = theirs \/ theirs' = entry')
    BY <1>2
  <2>3. left # <<>> /\ left' = Tail(left)
    BY <1>1
  <2> QED
    BY <1>2, <2>1, <2>2, <2>3, TypeRenames DEF IInv
<1>4. StageInv' /\ PlainInv' /\ SeenInv' /\ WindowInv' /\ UnseenSurvives'
  BY <1>2 DEF IInv, StageInv, PlainInv, SeenInv, WindowInv, UnseenSurvives,
     Staged, Displaces, Exchanged, Undoes
<1>5. KeptInv'
  BY <1>2 DEF IInv, KeptInv, Names
<1>6. RestoreInv'
  BY <1>1, <1>2 DEF IInv, RestoreInv
<1>7. DestInv'
  BY <1>1 DEF DestInv
<1> QED
  BY <1>3, <1>4, <1>5, <1>6, <1>7 DEF IInv

LEMMA RestoresNew == ASSUME IInv, RestoreNew PROVE IInv'
<1> USE DEF RestoreNew
<1>1. left # <<>> /\ left \in Seq(Public) /\ ours \in copies /\ entry["tmp"] = ours /\ ours # None
  BY DEF IInv, TypeOK, RestoreInv, StageInv, Staged
<1>2. Head(left) \in Public
  BY <1>1
<1>3. entry \in [Names -> Ids] /\ ours \in Ids /\ None \in Ids
  BY DEF IInv, TypeOK, Ids, None
<1>4. entry' \in [Names -> Ids] /\ NamesInv' /\ entry'["tmp"] = None
  BY <1>1, <1>2, <1>3 DEF IInv, NamesInv, Names, Public
<1>5. \A p \in Public : entry'[p] \in {entry[p]} \cup copies
  BY <1>1, <1>2, <1>3 DEF Names, Public
<1> QED
  BY <1>4, <1>5, NextPaths

LEMMA RestoresDrop == ASSUME IInv, RestoreDrop PROVE IInv'
<1> USE DEF RestoreDrop, DiscardStaging
<1>1. call.op = "restore"
  BY Course DEF IInv, Steps
<1>2. entry \in [Names -> Ids] /\ None \in Ids
  BY DEF IInv, TypeOK, Ids, None
<1>3. entry' \in [Names -> Ids] /\ NamesInv' /\ entry'["tmp"] = None
  BY <1>2 DEF IInv, NamesInv, Names, Public
<1>4. \A p \in Public : entry'[p] = entry[p]
  BY <1>2 DEF Names, Public
<1>5. unseen' = unseen
  BY <1>1 DEF Loses, Authorized
<1> QED
  BY <1>3, <1>4, <1>5, NextPaths

LEMMA Staging == ASSUME IInv, RestoreStage PROVE IInv'
<1> USE DEF RestoreStage
<1>1. call.op = "restore" /\ left # <<>> /\ left \in Seq(Public)
  BY Course DEF IInv, TypeOK, RestoreInv, Steps, Step
<1>2. snap[Head(left)] \in Copy1 /\ Plain(snap[Head(left)])
  BY DEF IInv, TypeOK, PlainInv
<1>3. /\ "r_stage" \notin Staged \cup Displaces \cup {"idle"} /\ "r_look" \in Staged
      /\ "r_look" \in Steps(call.op)
  BY <1>1 DEF Staged, Displaces, Exchanged, Undoes, Steps
<1> QED
  BY <1>1, <1>2, <1>3, Stages

-----------------------------------------------------------------------------
(* The tools, step by step.                                                *)

\* A step that only decides how to go on.
LEMMA Checks ==
  ASSUME IInv, NEW p, NEW q, Step(p, q), UNCHANGED <<fsVars, seenVars, snapVars>>,
         p \notin {"idle", "s_publish", "w_drop", "r_drop"}, q \in Steps(call.op),
         q \in Staged <=> p \in Staged, q \in Exchanged <=> p \in Exchanged,
         q \notin Undoes \cup {"idle", "w_drop", "c_drop", "r_drop", "m_over", "m_verify", "m_drop"}
  PROVE  IInv'
<1> USE DEF Step, Goto, seenVars
<1>1. Quiet /\ GoesOn
  BY DEF Quiet, GoesOn
<1>2. SeenInv' /\ WindowInv'
  BY DEF IInv, SeenInv, WindowInv, fsVars, argVars, histVars
<1> QED
  BY <1>1, <1>2, Looks

LEMMA RollbackStarts ==
  ASSUME IInv, NEW p, NEW q, RollbackLooks(p, q), UNCHANGED snapVars,
         (p = "w_back" /\ q = "w_undo") \/ (p = "c_back" /\ q = "c_undo")
  PROVE  IInv'
<1> USE DEF RollbackLooks, Step, Goto, seenVars
<1>1. q \in Steps(call.op) /\ p \in Exchanged /\ q \in Undoes
  BY Course DEF IInv, Steps, Exchanged, Undoes
<1>2. Quiet /\ GoesOn
  BY <1>1 DEF Quiet, GoesOn, Staged, Exchanged, Undoes
<1>3. SeenInv'
  BY DEF SeenInv
<1>4. WindowInv'
  BY <1>1 DEF IInv, WindowInv, StageInv, fsVars, argVars, histVars, Exchanged
<1> QED
  BY <1>2, <1>3, <1>4, Looks

LEMMA RollbackStops ==
  ASSUME IInv, NEW p, KeepUnknown(p), p \subseteq {"w_back", "c_back"}, UNCHANGED snapVars
  PROVE  IInv'
<1>1. pc # "idle" /\ Shrunk /\ torn' \subseteq Ids /\ res' = "failed" /\ pc' = "idle"
  BY SameObjects DEF KeepUnknown, End, IInv, TypeOK
<1> QED
  BY <1>1, Preserved DEF KeepUnknown, End

LEMMA Fails1 ==
  ASSUME IInv, NEW p, Fails(p), UNCHANGED snapVars, p \cap (Exchanged \cup {"idle"}) = {}
  PROVE  IInv'
  BY FailsSafely DEF Fails, snapVars

LEMMA Writes == ASSUME IInv, WriteNext, UNCHANGED snapVars PROVE IInv'
<1>1. ASSUME NEW over \in BOOLEAN, NEW want \in {NoHash, "old"}, Write(over, want) PROVE IInv'
  <2>1. "w_look" \in Steps("write") /\ "w_look" \notin Staged \cup Displaces
    BY DEF Steps, Staged, Displaces, Exchanged, Undoes
  <2> QED
    BY <1>1, <2>1, Begins DEF Write, snapVars
<1>2. CASE Patch
  <2>1. "p_read" \in Steps("write") /\ "p_read" \notin Staged \cup Displaces
    BY DEF Steps, Staged, Displaces, Exchanged, Undoes
  <2> QED
    BY <1>2, <2>1, Begins DEF Patch, snapVars
<1>3. CASE PatchRead
  <2>1. "w_look" \in Steps(call.op)
    BY <1>3, Course DEF PatchRead, Step, IInv, Steps
  <2> QED
    BY <1>3, <2>1, Checks DEF PatchRead, Staged, Exchanged, Undoes
<1>4. CASE PatchChanged \/ WriteRefused \/ WriteMismatch \/ WriteVanished \/ WriteOntoDirectory
           \/ WriteAppeared \/ Breaks({"w_look", "w_hash", "w_stage", "w_commit"})
  <2>1. \E p \in SUBSET {"p_read", "w_look", "w_hash", "w_stage", "w_commit"} : Fails(p)
    BY <1>4 DEF PatchChanged, WriteRefused, WriteMismatch, WriteVanished, WriteOntoDirectory,
                WriteAppeared, Breaks
  <2> QED
    BY <2>1, Fails1 DEF Exchanged, Undoes
<1>5. CASE WriteLook
  <2>1. {"w_stage", "w_hash"} \subseteq Steps(call.op)
    BY <1>5, Course DEF WriteLook, Step, IInv, Steps
  <2> QED
    BY <1>5, <2>1, Checks DEF WriteLook, Staged, Exchanged, Undoes
<1>6. CASE WriteHash
  <2> USE DEF WriteHash, Step, Goto
  <2>1. "w_stage" \in Steps(call.op)
    BY <1>6, Course DEF IInv, Steps
  <2>2. Quiet /\ GoesOn
    BY <1>6, <2>1 DEF Quiet, GoesOn, Staged, Exchanged, Undoes
  <2>3. SeenInv' /\ WindowInv'
    BY <1>6 DEF SeenInv, WindowInv, Exchanged, Undoes
  <2>4. entry["dst"] # None
    BY <1>6 DEF Expected, Is
  <2> QED
    BY <1>6, <2>2, <2>3, <2>4, Looks
<1>7. CASE WriteStage
  <2>1. call.op = "write" /\ "w_commit" \in Steps(call.op)
    BY <1>7, Course DEF WriteStage, Step, IInv, Steps
  <2>2. LET o == Object("file", "new", {}) IN o \in Copy1 /\ Plain(o) /\ o.ver = 0
    BY DEF Object, Copy1, Texts, Plain
  <2>3. /\ "w_stage" \notin Staged \cup Displaces \cup {"idle"} /\ "w_commit" \in Staged
        /\ UNCHANGED <<stage, snap, left>> /\ copies' = copies
    BY DEF Staged, Displaces, Exchanged, Undoes, snapVars
  <2> QED
    BY <1>7, <2>1, <2>2, <2>3, Stages DEF WriteStage
<1>8. CASE WriteExchange
  <2>1. "w_verify" \in Steps(call.op)
    BY <1>8, Course DEF WriteExchange, Step, IInv, Steps
  <2> QED
    BY <1>8, <2>1, Exchanges DEF WriteExchange, Staged, Public
<1>9. CASE WriteVerify
  <2> USE DEF WriteVerify
  <2>1. {"w_drop", "w_back"} \subseteq Steps(call.op)
    BY <1>9, Course DEF Step, IInv, Steps
  <2>2. CASE Step("w_verify", "w_drop") /\ Displaced
    <3> USE DEF Step, Goto
    <3>1. Quiet /\ GoesOn
      BY <1>9, <2>1, <2>2 DEF Quiet, GoesOn, Staged, Exchanged, Undoes, seenVars
    <3>2. SeenInv' /\ WindowInv'
      BY <1>9, <2>2 DEF SeenInv, WindowInv, Displaced, Exchanged, Undoes, fsVars, argVars,
                        histVars, seenVars
    <3> QED
      BY <1>9, <3>1, <3>2, Looks DEF seenVars
  <2>3. CASE Step("w_verify", "w_back")
    BY <1>9, <2>1, <2>3, Checks DEF Staged, Exchanged, Undoes
  <2> QED
    BY <1>9, <2>2, <2>3
<1>10. CASE RollbackLooks("w_back", "w_undo")
  BY <1>10, RollbackStarts
<1>11. CASE KeepUnknown({"w_back"})
  BY <1>11, RollbackStops
<1>12. CASE RollBack({"w_undo"})
  BY <1>12, RollsBack DEF Undoes
<1>13. CASE RollBackRaises
  <2>1. pc = "w_undo" /\ slipped
    BY <1>13 DEF RollBackRaises, Fails, IInv, WindowInv, Undoes
  <2> QED
    BY <1>13, <2>1, FailsSafely DEF RollBackRaises, snapVars
<1>14. CASE WriteDrop
  BY <1>14, Drops DEF WriteDrop, DiscardStaging
<1>15. CASE WriteReplace
  <2>1. call.op = "write" /\ pc \in Staged
    BY <1>15, Course DEF WriteReplace, IInv, Steps, Staged
  <2> QED
    BY <1>15, <2>1, Publishes DEF WriteReplace
<1>16. CASE WriteNew
  <2>1. call.op = "write" /\ pc \in Staged
    BY <1>16, Course DEF WriteNew, PublishNew, IInv, Steps, Staged
  <2>2. unseen' = unseen
    BY <1>16 DEF WriteNew, PublishNew, Vacant, Loses
  <2> QED
    BY <1>16, <2>1, <2>2, Publishes DEF WriteNew, PublishNew
<1> QED
  BY <1>1, <1>2, <1>3, <1>4, <1>5, <1>6, <1>7, <1>8, <1>9, <1>10, <1>11, <1>12, <1>13, <1>14,
     <1>15, <1>16 DEF WriteNext

LEMMA CopiesTo == ASSUME IInv, CopyNext, UNCHANGED snapVars PROVE IInv'
<1>1. ASSUME NEW over \in BOOLEAN, Copy(over) PROVE IInv'
  <2>1. "c_look" \in Steps("copy") /\ "c_look" \notin Staged \cup Displaces
    BY DEF Steps, Staged, Displaces, Exchanged, Undoes
  <2> QED
    BY <1>1, <2>1, Begins DEF Copy, snapVars
<1>2. CASE CopyLook
  <2>1. "c_stage" \in Steps(call.op)
    BY <1>2, Course DEF CopyLook, Step, IInv, Steps
  <2> QED
    BY <1>2, <2>1, Checks DEF CopyLook, Staged, Exchanged, Undoes
<1>3. CASE CopyRefused \/ CopyGone \/ CopyNotOver({"c_commit", "c_again"}) \/ CopyVanished
           \/ Breaks({"c_look", "c_stage", "c_commit", "c_new", "c_again", "c_over"})
  <2>1. \E p \in SUBSET {"c_look", "c_stage", "c_commit", "c_new", "c_again", "c_over"} : Fails(p)
    BY <1>3 DEF CopyRefused, CopyGone, CopyNotOver, CopyVanished, Breaks
  <2> QED
    BY <2>1, Fails1 DEF Exchanged, Undoes
<1>4. CASE CopyStage
  <2>1. call.op = "copy" /\ "c_commit" \in Steps(call.op)
    BY <1>4, Course DEF CopyStage, Step, IInv, Steps
  <2> DEFINE s == obj[entry["src"]]
  <2>2. s \in Copy1 /\ Plain(s)
    <3>1. entry["src"] \in 1..Len(obj)
      BY <1>4 DEF CopyStage, IInv, TypeOK, Names, Public, Ids, None
    <3> QED
      BY <3>1 DEF IInv, TypeOK, PlainInv
  <2>3. StageObject(Object(s.kind, s.text, s.kids)) /\ Step("c_stage", "c_commit")
    BY <1>4 DEF CopyStage
  <2> HIDE DEF s
  <2> DEFINE o == Object(s.kind, s.text, s.kids)
  <2>4. o \in Copy1 /\ Plain(o) /\ o.ver = 0
    BY <2>2 DEF Object, Copy1, Plain
  <2>5. /\ "c_stage" \notin Staged \cup Displaces \cup {"idle"} /\ "c_commit" \in Staged
        /\ UNCHANGED <<stage, snap, left>> /\ copies' = copies
    BY DEF Staged, Displaces, Exchanged, Undoes, snapVars
  <2> HIDE DEF o
  <2>6. StageObject(o)
    BY <2>3 DEF o
  <2> QED
    BY <2>1, <2>3, <2>4, <2>5, <2>6, Stages
<1>5. ASSUME NEW p \in {"c_commit", "c_again"}, CopySees(p, "c_over") PROVE IInv'
  <2> USE DEF CopySees, Goto, SeeDst
  <2>1. "c_over" \in Steps(call.op)
    BY <1>5, Course DEF IInv, Steps
  <2>2. Quiet /\ GoesOn
    BY <1>5, <2>1 DEF Quiet, GoesOn, Staged, Exchanged, Undoes
  <2>3. SeenInv' /\ WindowInv'
    BY <1>5 DEF SeenInv, WindowInv, Exchanged, Undoes
  <2> QED
    BY <1>5, <2>2, <2>3, Looks
<1>6. CASE CopyFresh \/ CopyAppeared
  <2>1. {"c_new", "c_again"} \subseteq Steps(call.op)
    BY <1>6, Course DEF CopyFresh, CopyAppeared, Step, IInv, Steps
  <2> QED
    BY <1>6, <2>1, Checks DEF CopyFresh, CopyAppeared, Staged, Exchanged, Undoes
<1>7. CASE CopyNew
  <2>1. call.op = "copy" /\ pc \in Staged
    BY <1>7, Course DEF CopyNew, PublishNew, IInv, Steps, Staged
  <2>2. unseen' = unseen
    BY <1>7 DEF CopyNew, PublishNew, Vacant, Loses
  <2> QED
    BY <1>7, <2>1, <2>2, Publishes DEF CopyNew, PublishNew
<1>8. CASE CopyExchange
  <2>1. "c_verify" \in Steps(call.op)
    BY <1>8, Course DEF CopyExchange, Step, IInv, Steps
  <2> QED
    BY <1>8, <2>1, Exchanges DEF CopyExchange, Staged, Public
<1>9. CASE CopyVerify
  <2> USE DEF CopyVerify
  <2>1. {"c_drop", "c_back"} \subseteq Steps(call.op)
    BY <1>9, Course DEF Step, IInv, Steps
  <2>2. CASE entry["tmp"] = seen.id
    <3> USE DEF Step, Goto
    <3>1. Quiet /\ GoesOn
      BY <1>9, <2>1, <2>2 DEF Quiet, GoesOn, Staged, Exchanged, Undoes, seenVars
    <3>2. SeenInv'
      BY <1>9, <2>2 DEF SeenInv, fsVars, seenVars
    <3>3. WindowInv'
      BY <1>9, <2>2 DEF IInv, WindowInv, Exchanged, Undoes, fsVars, argVars, histVars, seenVars
    <3> QED
      BY <1>9, <3>1, <3>2, <3>3, Looks DEF seenVars
  <2>3. CASE entry["tmp"] # seen.id
    BY <1>9, <2>1, <2>3, Checks DEF Staged, Exchanged, Undoes
  <2> QED
    BY <2>2, <2>3
<1>10. CASE RollbackLooks("c_back", "c_undo")
  BY <1>10, RollbackStarts
<1>11. CASE KeepUnknown({"c_back"})
  BY <1>11, RollbackStops
<1>12. CASE CopyDrop
  BY <1>12, Drops DEF CopyDrop, Removes
<1>13. CASE CopyDropFails
  <2> USE DEF CopyDropFails
  <2>1. Shrunk /\ torn' \subseteq Ids
    BY <1>13, Breaking DEF IInv, Names
  <2>2. CASE entry["dst"] = ours
    BY <1>13, <2>1, <2>2, Frays DEF Goto
  <2>3. CASE entry["dst"] # ours
    BY <1>13, <2>1, <2>3, Preserved DEF End
  <2> QED
    BY <2>2, <2>3
<1>14. CASE RollBack({"c_undo", "c_restore"})
  BY <1>14, RollsBack DEF Undoes
<1>15. CASE CopyBackRaises
  <2> USE DEF CopyBackRaises, End, NothingElse
  <2>1. Shrunk /\ torn' \subseteq Ids /\ slipped
    BY <1>15, SameObjects DEF IInv, TypeOK, WindowInv, Undoes
  <2> QED
    BY <1>15, <2>1, Preserved
<1> QED
  BY <1>1, <1>2, <1>3, <1>4, <1>5, <1>6, <1>7, <1>8, <1>9, <1>10, <1>11, <1>12, <1>13, <1>14, <1>15
     DEF CopyNext

LEMMA Moves == ASSUME IInv, MoveNext, UNCHANGED snapVars PROVE IInv'
<1>1. ASSUME NEW over \in BOOLEAN, Move(over) PROVE IInv'
  <2>1. "m_look" \in Steps("move") /\ "m_look" \notin Staged \cup Displaces
    BY DEF Steps, Staged, Displaces, Exchanged, Undoes
  <2> QED
    BY <1>1, <2>1, Begins DEF Move, snapVars
<1>2. CASE MoveLook
  <2> USE DEF MoveLook, Step, Goto
  <2>1. "m_dst" \in Steps(call.op)
    BY <1>2, Course DEF IInv, Steps
  <2>2. Quiet /\ GoesOn
    BY <1>2, <2>1 DEF Quiet, GoesOn, Staged, Exchanged, Undoes
  <2>3. SeenInv' /\ WindowInv'
    BY <1>2 DEF SeenInv, WindowInv, Exchanged, Undoes
  <2> QED
    BY <1>2, <2>2, <2>3, Looks
<1>3. CASE MoveMissing \/ MoveRefused \/ MoveChanged \/ MoveVanished \/ MoveNotBack
  <2>1. \E p \in SUBSET {"m_look", "m_new", "m_dst", "m_again", "m_over", "m_back"} : Fails(p)
    BY <1>3 DEF MoveMissing, MoveRefused, MoveChanged, MoveVanished, MoveNotBack
  <2> QED
    BY <2>1, Fails1 DEF Exchanged, Undoes
<1>4. CASE MoveFresh \/ MoveAppeared \/ MoveBack
  <2>1. {"m_new", "m_again", "m_undo"} \subseteq Steps(call.op)
    BY <1>4, Course DEF MoveFresh, MoveAppeared, MoveBack, Step, IInv, Steps
  <2> QED
    BY <1>4, <2>1, Checks DEF MoveFresh, MoveAppeared, MoveBack, Staged, Exchanged, Undoes
<1>5. CASE MoveSees
  <2> USE DEF MoveSees, Goto, SeeDst
  <2>1. "m_over" \in Steps(call.op)
    BY <1>5, Course DEF IInv, Steps
  <2>2. Quiet /\ GoesOn
    BY <1>5, <2>1 DEF Quiet, GoesOn, Staged, Exchanged, Undoes
  <2>3. SeenInv'
    BY <1>5 DEF SeenInv
  <2>4. obj[entry["dst"]].kids = {}
    <3>1. entry["dst"] \in 1..Len(obj)
      BY <1>5 DEF IInv, TypeOK, Names, Public, Ids, None
    <3> QED
      BY <1>5, <3>1 DEF Replaceable, IsEmpty, IsDir, Is, IInv, PlainInv, Plain
  <2>5. WindowInv'
    BY <1>5, <2>4 DEF WindowInv, Exchanged, Undoes, fsVars
  <2> QED
    BY <1>5, <2>2, <2>3, <2>5, Looks
<1>6. CASE MoveNew
  BY <1>6, MovesNew
<1>7. CASE MoveExchange
  BY <1>7, MovesOver
<1>8. CASE MoveVerify
  <2> USE DEF MoveVerify
  <2>1. {"m_drop", "m_back"} \subseteq Steps(call.op)
    BY <1>8, Course DEF Step, IInv, Steps
  <2>2. CASE entry["src"] = seen.id
    <3> USE DEF Step, Goto, seenVars
    <3>1. Quiet /\ GoesOn
      BY <1>8, <2>1, <2>2 DEF Quiet, GoesOn, Staged, Exchanged, Undoes
    <3>2. SeenInv' /\ WindowInv'
      BY <1>8, <2>2 DEF IInv, SeenInv, WindowInv, Exchanged, Undoes, fsVars, histVars
    <3> QED
      BY <1>8, <3>1, <3>2, Looks
  <2>3. CASE entry["src"] # seen.id
    BY <1>8, <2>1, <2>3, Checks DEF Staged, Exchanged, Undoes
  <2> QED
    BY <2>2, <2>3
<1>9. CASE MoveDrop
  BY <1>9, MovesDrop
<1>10. CASE MoveDropFails
  <2> USE DEF MoveDropFails
  <2>1. Shrunk /\ torn' \subseteq Ids
    BY <1>10, Breaking, SameObjects DEF IInv, TypeOK, Names, Public
  <2> QED
    BY <1>10, <2>1, Frays DEF Goto, End
<1>11. CASE MoveUndo
  BY <1>11, MovesBack
<1> QED
  BY <1>1, <1>2, <1>3, <1>4, <1>5, <1>6, <1>7, <1>8, <1>9, <1>10, <1>11 DEF MoveNext

LEMMA Removals == ASSUME IInv, RemoveNext, UNCHANGED snapVars PROVE IInv'
<1>1. ASSUME NEW r \in BOOLEAN, Remove(r) PROVE IInv'
  <2>1. "d_look" \in Steps("remove") /\ "d_look" \notin Staged \cup Displaces
    BY DEF Steps, Staged, Displaces, Exchanged, Undoes
  <2> QED
    BY <1>1, <2>1, Begins DEF Remove, snapVars
<1>2. CASE RemoveLook
  <2> USE DEF RemoveLook, Goto
  <2>1. {"d_file", "d_dir", "d_tree"} \subseteq Steps(call.op)
    BY <1>2, Course DEF IInv, Steps
  <2>2. Quiet /\ GoesOn
    BY <1>2, <2>1 DEF Quiet, GoesOn, Staged, Exchanged, Undoes, seenVars
  <2>3. SeenInv' /\ WindowInv'
    BY <1>2 DEF SeenInv, WindowInv, Exchanged, Undoes
  <2> QED
    BY <1>2, <2>2, <2>3, Looks DEF seenVars
<1>3. CASE RemoveFails
  BY <1>3, Fails1 DEF RemoveFails, Exchanged, Undoes
<1>4. CASE RemoveDrop
  BY <1>4, Removed
<1>5. CASE RemoveBreaks
  <2> USE DEF RemoveBreaks, End
  <2>1. Shrunk /\ torn' \subseteq Ids
    BY <1>5, Breaking DEF IInv, Names, Public
  <2> QED
    BY <1>5, <2>1, Frays
<1> QED
  BY <1>1, <1>2, <1>3, <1>4, <1>5, Makes DEF RemoveNext

LEMMA Bundles == ASSUME IInv, BundleNext, UNCHANGED snapVars PROVE IInv'
<1>1. CASE Bundle
  <2>1. "b_look" \in Steps("bundle") /\ "b_look" \notin Staged \cup Displaces
    BY DEF Steps, Staged, Displaces, Exchanged, Undoes
  <2> QED
    BY <1>1, <2>1, Begins DEF Bundle, snapVars
<1>2. CASE BundleLook \/ BundleVacant
  <2>1. {"b_vacant", "b_stage"} \subseteq Steps(call.op)
    BY <1>2, Course DEF BundleLook, BundleVacant, Step, IInv, Steps
  <2> QED
    BY <1>2, <2>1, Checks DEF BundleLook, BundleVacant, Staged, Exchanged, Undoes
<1>3. CASE BundleStage
  <2>1. call.op = "bundle" /\ "b_commit" \in Steps(call.op)
    BY <1>3, Course DEF BundleStage, Step, IInv, Steps
  <2>2. LET o == Object("file", "new", {}) IN o \in Copy1 /\ Plain(o) /\ o.ver = 0
    BY DEF Object, Copy1, Texts, Plain
  <2>3. /\ "b_stage" \notin Staged \cup Displaces \cup {"idle"} /\ "b_commit" \in Staged
        /\ UNCHANGED <<stage, snap, left>> /\ copies' = copies
    BY DEF Staged, Displaces, Exchanged, Undoes, snapVars
  <2> QED
    BY <1>3, <2>1, <2>2, <2>3, Stages DEF BundleStage
<1>4. CASE BundleNew
  <2>1. call.op = "bundle" /\ pc \in Staged
    BY <1>4, Course DEF BundleNew, PublishNew, IInv, Steps, Staged
  <2>2. unseen' = unseen
    BY <1>4 DEF BundleNew, PublishNew, Vacant, Loses
  <2> QED
    BY <1>4, <2>1, <2>2, Publishes DEF BundleNew, PublishNew
<1>5. CASE BundleFails
  <2>1. \E p \in SUBSET {"b_look", "b_vacant", "b_stage", "b_commit"} : Fails(p)
    BY <1>5 DEF BundleFails, Breaks
  <2> QED
    BY <2>1, Fails1 DEF Exchanged, Undoes
<1> QED
  BY <1>1, <1>2, <1>3, <1>4, <1>5 DEF BundleNext

LEMMA Crashes == ASSUME IInv, Crash, UNCHANGED snapVars PROVE IInv'
<1>1. Shrunk /\ torn' \subseteq Ids
  BY SameObjects DEF Crash, IInv, TypeOK
<1> QED
  BY <1>1, Preserved DEF Crash

LEMMA SnapshotSteps == ASSUME IInv, SnapshotsNext PROVE IInv'
<1>1. CASE Create
  <2>1. "s_copy" \in Steps("snapshot") /\ "s_copy" \notin Staged \cup Displaces
    BY DEF Steps, Staged, Displaces, Exchanged, Undoes
  <2> QED
    BY <1>1, <2>1, Begins DEF Create
<1>2. CASE CreateCopy
  BY <1>2, Copies
<1>3. CASE CreateFails
  <2>1. Fails({"s_copy"}) /\ pc # "idle" /\ pc \notin Exchanged
    BY <1>3 DEF CreateFails, Fails, Exchanged, Undoes
  <2> QED
    BY <1>3, <2>1, FailsSafely DEF CreateFails
<1>4. CASE CreatePublish
  BY <1>4, SnapPublishes
<1>5. CASE Delete
  BY <1>5, Deletes
<1>6. CASE Restore
  <2>1. "r_stage" \in Steps("restore") /\ "r_stage" \notin Staged \cup Displaces
    BY DEF Steps, Staged, Displaces, Exchanged, Undoes
  <2> QED
    BY <1>6, <2>1, Begins DEF Restore
<1>7. CASE RestoreStage
  BY <1>7, Staging
<1>8. CASE RestoreMissing \/ RestoreAppeared \/ RestoreVanished \/ RestoreBreaks
  <2>1. (\E p \in SUBSET {"r_stage", "r_look", "r_new", "r_over"} : Fails(p)) /\ UNCHANGED snapVars
    BY <1>8 DEF RestoreMissing, RestoreAppeared, RestoreVanished, RestoreBreaks, Breaks
  <2> QED
    BY <2>1, Fails1 DEF Exchanged, Undoes
<1>9. CASE RestoreLook
  <2>1. {"r_new", "r_over"} \subseteq Steps(call.op)
    BY <1>9, Course DEF RestoreLook, Step, IInv, Steps
  <2> QED
    BY <1>9, <2>1, Checks DEF RestoreLook, Staged, Exchanged, Undoes
<1>10. CASE RestoreNew
  BY <1>10, RestoresNew
<1>11. CASE RestoreExchange
  <2>1. call.op = "restore" /\ "r_drop" \in Steps(call.op) /\ left # <<>>
    BY <1>11, Course DEF RestoreExchange, Step, IInv, Steps, RestoreInv
  <2>2. Head(left) \in Public
    BY <2>1, Rest DEF IInv
  <2> QED
    BY <1>11, <2>1, <2>2, Exchanges DEF RestoreExchange, Staged
<1>12. CASE RestoreDrop
  BY <1>12, RestoresDrop
<1>13. CASE RestoreDropFails
  <2> USE DEF RestoreDropFails, End
  <2>1. Shrunk /\ torn' \subseteq Ids /\ call.op = "restore"
    BY <1>13, Breaking, Course DEF IInv, Names, Steps
  <2> QED
    BY <1>13, <2>1, Preserved
<1> QED
  BY <1>1, <1>2, <1>3, <1>4, <1>5, <1>6, <1>7, <1>8, <1>9, <1>10, <1>11, <1>12, <1>13 DEF SnapshotsNext

-----------------------------------------------------------------------------
(* The invariant.                                                          *)

LEMMA Initially == SnapInit => IInv
<1> SUFFICES ASSUME SnapInit PROVE IInv
  OBVIOUS
<1>1. TypeOK
  BY TypeInit
<1>2. NamesInv
  BY DEF SnapInit, Init, NamesInv, Names, Public, None
<1>3. StageInv
  BY DEF SnapInit, Init, StageInv, Staged, Displaces, Exchanged, Undoes, Names, Public
<1>4. PlainInv
  <2>1. /\ Len(obj) = 2 /\ Plain(obj[1]) /\ Plain(obj[2])
        /\ \A s \in {stage, snap} : \A p \in DOMAIN s : s[p] = obj[1]
    BY DEF SnapInit, Init, Plain, Object, Absent
  <2> QED
    BY <2>1 DEF PlainInv
<1>5. KeptInv /\ RestoreInv /\ SeenInv /\ WindowInv /\ DestInv /\ UnseenSurvives
  BY DEF SnapInit, Init, KeptInv, RestoreInv, SeenInv, WindowInv, DestInv, UnseenSurvives, NoCall,
     Staged, Exchanged, Undoes
<1> QED
  BY <1>1, <1>2, <1>3, <1>4, <1>5 DEF IInv

LEMMA Stutters == ASSUME IInv, UNCHANGED vars PROVE IInv'
<1> USE DEF vars, fileVars, fsVars, argVars, seenVars, histVars, snapVars
<1>1. TypeOK'
  <2>1. slipped' \in BOOLEAN
    BY Zenon DEF IInv, TypeOK
  <2> QED
    BY <2>1 DEF IInv, TypeOK, Ids
<1>2. NamesInv' /\ StageInv' /\ PlainInv' /\ KeptInv' /\ RestoreInv'
  BY DEF IInv, NamesInv, StageInv, PlainInv, KeptInv, RestoreInv
<1>3. SeenInv' /\ WindowInv' /\ DestInv' /\ UnseenSurvives'
  BY DEF IInv, SeenInv, WindowInv, DestInv, UnseenSurvives
<1> QED
  BY <1>1, <1>2, <1>3 DEF IInv

LEMMA Keeps == IInv /\ [SnapNext]_vars => IInv'
<1> SUFFICES ASSUME IInv, [SnapNext]_vars PROVE IInv'
  OBVIOUS
<1>1. CASE SnapshotsNext
  BY <1>1, SnapshotSteps
<1>2. CASE ToolsNext /\ UNCHANGED snapVars
  BY <1>2, Writes, CopiesTo, Moves, Removals, Bundles, Crashes DEF ToolsNext
<1>3. CASE OthersNext /\ UNCHANGED snapVars
  BY <1>3, OtherPrograms
<1>4. CASE UNCHANGED vars
  BY <1>4, Stutters
<1> QED
  BY <1>1, <1>2, <1>3, <1>4 DEF SnapNext

\* The inductive invariant of the file tools and snapshots holds.
THEOREM Invariance == SnapSpec => []IInv
  BY Initially, Keeps, PTL DEF SnapSpec

\* The variables keep to their types, and each handler to its own steps.
THEOREM FilesTypeCorrect == SnapSpec => []TypeOK
<1>1. IInv => TypeOK
  BY DEF IInv
<1> QED
  BY <1>1, Invariance, PTL

\* Whatever other programs do between the digest, the exchange and the
\* unlink, write_text_file with expected_sha256 removes only that content.
THEOREM GuardAlwaysHolds == SnapSpec => []GuardHolds
<1>1. IInv => GuardHolds
  BY DEF IInv, SeenInv, GuardHolds
<1> QED
  BY <1>1, Invariance, PTL

\* Nothing of somebody else that a call has not looked at is destroyed,
\* outside the windows the model names.
THEOREM UnseenAlwaysSurvives == SnapSpec => []UnseenSurvives
<1>1. IInv => UnseenSurvives
  BY DEF IInv
<1> QED
  BY <1>1, Invariance, PTL

\* A failed write_text_file, copy_path or artifact_bundle leaves the
\* destination what it would be without the call.
THEOREM DestinationSurvivesFailure == SnapSpec => []FailedCallKeepsDestination
<1>1. IInv => FailedCallKeepsDestination
  BY DEF IInv, DestInv, FailedCallKeepsDestination
<1> QED
  BY <1>1, Invariance, PTL

\* A crash between any two system calls loses nothing that was there.
THEOREM CrashesLoseNothing == SnapSpec => []CrashLosesNothing
<1>1. IInv => CrashLosesNothing
  <2> SUFFICES ASSUME IInv, res = "crashed", NEW n \in Public
               PROVE  theirs[n] \in {None, entry["src"], entry["dst"]} \cup kept
    BY DEF CrashLosesNothing
  <2>1. theirs[n] \in {None} \cup {entry[m] : m \in Names} \cup kept
    BY DEF IInv, KeptInv
  <2>2. CASE pc = "idle"
    BY <2>1, <2>2 DEF IInv, StageInv, Staged, Displaces, Exchanged, Undoes, Names, Public
  <2>3. CASE pc # "idle"
    BY <2>3 DEF IInv, KeptInv
  <2> QED
    BY <2>2, <2>3
<1> QED
  BY <1>1, Invariance, PTL

\* Each path of a restore stands, at every moment, for what it would stand
\* for without the call or for a whole staged copy.
THEOREM RestoreIsPerPathAtomic == SnapSpec => []PerPathAtomic
<1>1. IInv => PerPathAtomic
  BY DEF IInv, RestoreInv, PerPathAtomic
<1> QED
  BY <1>1, Invariance, PTL

=============================================================================
