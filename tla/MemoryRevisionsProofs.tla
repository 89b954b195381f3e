----------------------- MODULE MemoryRevisionsProofs -----------------------
(***************************************************************************)
(* Proofs about MemoryRevisions for any texts and any connections: what    *)
(* holds however corrections and rollbacks overlap (Inv), what holds as    *)
(* long as none have (AloneInv), and the refinement of RevisionLog.        *)
(***************************************************************************)
EXTENDS MemoryRevisions, SequenceTheorems, TLAPS

\* A record r an operation prepares is true of the history, in whatever state the
\* history is when it is written.
Faithful(r) ==
    /\ r.base <= Len(revs)
    /\ r.prev = TextAfter(r.base)
    /\ r.new # r.prev
    /\ r.kind = "correct" => r.of = 0
    /\ r.kind = "rollback" => r.of \in 1 .. Len(revs) /\ r.new = revs[r.of].prev
    /\ r.parent <= Len(revs)

\* What a connection has read stays a fact of the history until it writes.
ReadsHeld ==
    \A c \in Conn :
        /\ op[c].pc = "choose" =>
             op[c].base <= Len(revs) /\ op[c].seen = TextAfter(op[c].base)
        /\ op[c].pc \in {"parent", "commit"} => Faithful(op[c].rev)

Inv ==
    /\ TypeOK
    /\ TextIsLastRevision
    /\ PreviousWasHeld
    /\ RollbackRestores
    /\ ParentIsOlder
    /\ ReadsHeld

LEMMA InitInv == Init => Inv
  BY OriginalAssumption
     DEF Init, Inv, TypeOK, TextIsLastRevision, PreviousWasHeld, RollbackRestores,
         ParentIsOlder, ReadsHeld, TextAfter, Idle, Ops

\* Which shape an operation has at each of its points.
LEMMA OpShape ==
    ASSUME TypeOK, NEW c \in Conn
    PROVE  /\ op[c].pc = "choose" => op[c].seen \in Text /\ op[c].base \in Nat
           /\ op[c].pc \in {"parent", "commit"} => op[c].rev \in Revision
  BY DEF TypeOK, Ops, Idle

\* A step that reads: the rows stay, one connection knows something new.
LEMMA ReadKeepsInv ==
    ASSUME Inv, UNCHANGED <<text, item, revs>>, clock' \in Nat,
           NEW c \in Conn, NEW new \in Ops, op' = [op EXCEPT ![c] = new],
           new.pc = "choose" =>
             new.base <= Len(revs) /\ new.seen = TextAfter(new.base),
           new.pc \in {"parent", "commit"} => Faithful(new.rev)
    PROVE  Inv'
<1>1. TypeOK'
  BY DEF Inv, TypeOK
<1>2. ReadsHeld'
  <2>1. \A d \in Conn : op'[d] = IF d = c THEN new ELSE op[d]
    BY DEF Inv, TypeOK
  <2> QED
    BY <2>1 DEF Inv, ReadsHeld, Faithful, TextAfter
<1> QED
  BY <1>1, <1>2 DEF Inv, TextIsLastRevision, PreviousWasHeld, RollbackRestores,
     ParentIsOlder, TextAfter

LEMMA ReadsInv ==
    ASSUME Inv, NEW c \in Conn,
           \/ \E t \in Text : CorrectRead(c, t)
           \/ RollbackRead(c)
           \/ \E r \in 1 .. Len(revs), latest \in BOOLEAN : RollbackChoose(c, r, latest)
           \/ ParentRead(c)
           \/ Abandon(c)
    PROVE  Inv'
<1>1. UNCHANGED <<text, item, revs>> /\ clock' \in Nat
  BY DEF CorrectRead, RollbackRead, RollbackChoose, ParentRead, Abandon, rows, Inv, TypeOK
<1>2. Len(revs) \in Nat /\ revs \in Seq(Revision) /\ text \in Text
  BY DEF Inv, TypeOK
<1>3. Len(revs) <= Len(revs) /\ text = TextAfter(Len(revs))
  BY <1>2 DEF Inv, TextIsLastRevision
<1>4. CASE \E t \in Text : CorrectRead(c, t)
  <2>1. PICK t \in Text : CorrectRead(c, t)
    BY <1>4
  <2> DEFINE r == Draft(text, t, "correct", 0, Len(revs))
             new == [pc |-> "parent", rev |-> r]
  <2>2. /\ r \in Revision /\ r.prev = text /\ r.new = t /\ r.kind = "correct"
        /\ r.of = 0 /\ r.parent = 0 /\ r.base = Len(revs)
    BY <1>2 DEF Draft, Revision, Kinds
  <2>3. t # text
    BY <2>1 DEF CorrectRead
  <2> HIDE DEF r
  <2>4. new \in Ops /\ new.pc = "parent" /\ new.rev = r
    BY <2>2 DEF Ops
  <2>5. op' = [op EXCEPT ![c] = new]
    BY <2>1 DEF CorrectRead, r
  <2>6. Faithful(r)
    BY <1>2, <1>3, <2>2, <2>3 DEF Faithful
  <2> HIDE DEF new
  <2> QED
    BY <1>1, <2>4, <2>5, <2>6, ReadKeepsInv
<1>5. CASE RollbackRead(c)
  <2> DEFINE new == [pc |-> "choose", seen |-> text, base |-> Len(revs)]
  <2>1. new \in Ops /\ new.pc = "choose" /\ new.seen = text /\ new.base = Len(revs)
    BY <1>2 DEF Ops
  <2>2. op' = [op EXCEPT ![c] = new]
    BY <1>5 DEF RollbackRead
  <2> HIDE DEF new
  <2> QED
    BY <1>1, <1>3, <2>1, <2>2, ReadKeepsInv
<1>6. CASE \E r \in 1 .. Len(revs), latest \in BOOLEAN : RollbackChoose(c, r, latest)
  <2>1. PICK i \in 1 .. Len(revs), latest \in BOOLEAN : RollbackChoose(c, i, latest)
    BY <1>6
  <2>2. /\ op[c].pc = "choose" /\ op[c].seen \in Text /\ op[c].base \in Nat
        /\ revs[i] \in Revision /\ revs[i].prev # op[c].seen
    BY <1>2, <2>1, OpShape DEF RollbackChoose, Inv
  <2>3. op[c].base <= Len(revs) /\ op[c].seen = TextAfter(op[c].base)
    BY <2>2 DEF Inv, ReadsHeld
  <2> DEFINE r == Draft(op[c].seen, revs[i].prev, "rollback", i, op[c].base)
             new == [pc |-> "parent", rev |-> r]
  <2>4. /\ r \in Revision /\ r.prev = op[c].seen /\ r.new = revs[i].prev
        /\ r.kind = "rollback" /\ r.of = i /\ r.parent = 0 /\ r.base = op[c].base
    BY <1>2, <2>2 DEF Draft, Revision, Kinds
  <2> HIDE DEF r
  <2>5. new \in Ops /\ new.pc = "parent" /\ new.rev = r
    BY <2>4 DEF Ops
  <2>6. op' = [op EXCEPT ![c] = new]
    BY <2>1 DEF RollbackChoose, r
  <2>7. Faithful(r)
    BY <1>2, <2>2, <2>3, <2>4 DEF Faithful
  <2> HIDE DEF new
  <2> QED
    BY <1>1, <2>5, <2>6, <2>7, ReadKeepsInv
<1>7. CASE ParentRead(c)
  <2>1. PICK p \in 0 .. Len(revs) :
          op' = [op EXCEPT ![c] =
                   [pc |-> "commit", rev |-> [op[c].rev EXCEPT !.parent = p, !.at = clock]]]
    BY <1>7 DEF ParentRead, Inv, TypeOK
  <2>2. op[c].pc = "parent" /\ op[c].rev \in Revision
    BY <1>7, OpShape DEF ParentRead, Inv
  <2> DEFINE r == [op[c].rev EXCEPT !.parent = p, !.at = clock]
             new == [pc |-> "commit", rev |-> r]
  <2>3. /\ r \in Revision /\ r.prev = op[c].rev.prev /\ r.new = op[c].rev.new
        /\ r.kind = op[c].rev.kind /\ r.of = op[c].rev.of /\ r.base = op[c].rev.base
        /\ r.parent = p
    <3>1. p \in Nat /\ clock \in Nat
      BY <1>2 DEF Inv, TypeOK
    <3> QED
      BY <2>2, <3>1 DEF Revision
  <2> HIDE DEF r
  <2>4. new \in Ops /\ new.pc = "commit" /\ new.rev = r
    BY <2>3 DEF Ops
  <2>5. op' = [op EXCEPT ![c] = new]
    BY <2>1 DEF r
  <2>6. Faithful(r)
    <3>1. Faithful(op[c].rev)
      BY <2>2 DEF Inv, ReadsHeld
    <3> QED
      BY <1>2, <2>3, <3>1 DEF Faithful
  <2> HIDE DEF new
  <2> QED
    BY <1>1, <2>4, <2>5, <2>6, ReadKeepsInv
<1>8. CASE Abandon(c)
  <2>1. Idle \in Ops /\ Idle.pc = "idle"
    BY DEF Ops, Idle
  <2> QED
    BY <1>1, <1>8, <2>1, ReadKeepsInv DEF Abandon
<1> QED
  BY <1>4, <1>5, <1>6, <1>7, <1>8

\* What a commit writes, and that the older rows stay as they are.
LEMMA CommitShape ==
    ASSUME Inv, NEW c \in Conn, Commit(c)
    PROVE  /\ op[c].rev \in Revision /\ Faithful(op[c].rev) /\ Len(revs) \in Nat
           /\ text' = op[c].rev.new /\ item' = op[c].rev.new
           /\ op' = [op EXCEPT ![c] = Idle] /\ clock' = clock
           /\ revs \in Seq(Revision) /\ revs' \in Seq(Revision)
           /\ DOMAIN revs = 1 .. Len(revs) /\ DOMAIN revs' = 1 .. Len(revs) + 1
           /\ Len(revs') = Len(revs) + 1 /\ revs'[Len(revs) + 1] = op[c].rev
           /\ \A i \in 1 .. Len(revs) : revs'[i] = revs[i] /\ revs[i] \in Revision
           /\ \A i \in 0 .. Len(revs) : TextAfter(i)' = TextAfter(i)
<1>1. op[c].pc = "commit" /\ op[c].rev \in Revision /\ Faithful(op[c].rev)
  BY OpShape DEF Commit, Inv, ReadsHeld
<1>2. /\ revs' = Append(revs, op[c].rev) /\ revs \in Seq(Revision)
      /\ text' = op[c].rev.new /\ item' = op[c].rev.new
      /\ op' = [op EXCEPT ![c] = Idle] /\ clock' = clock
  BY DEF Commit, Inv, TypeOK
<1> DEFINE r == op[c].rev
<1> HIDE DEF r
<1>3. /\ Len(revs) \in Nat /\ revs' \in Seq(Revision)
      /\ DOMAIN revs = 1 .. Len(revs) /\ DOMAIN revs' = 1 .. Len(revs) + 1
      /\ Len(revs') = Len(revs) + 1 /\ revs'[Len(revs) + 1] = r
      /\ \A i \in 1 .. Len(revs) : revs'[i] = revs[i] /\ revs[i] \in Revision
  BY <1>1, <1>2 DEF r
<1>4. \A i \in 0 .. Len(revs) : TextAfter(i)' = TextAfter(i)
  BY <1>3 DEF TextAfter
<1> QED
  BY <1>1, <1>2, <1>3, <1>4 DEF r

LEMMA CommitInv ==
    ASSUME Inv, NEW c \in Conn, Commit(c)
    PROVE  Inv'
<1> DEFINE r == op[c].rev
           n == Len(revs)
           After(i) == IF i = 0 THEN Original ELSE revs'[i].new
<1>1. /\ r \in Revision /\ n \in Nat /\ text' = r.new /\ item' = r.new
      /\ op' = [op EXCEPT ![c] = Idle] /\ clock' = clock
      /\ revs' \in Seq(Revision)
  BY CommitShape
<1>2. /\ r.base <= n /\ r.prev = TextAfter(r.base)
      /\ r.kind = "rollback" => r.of \in 1 .. n /\ r.new = revs[r.of].prev
      /\ r.parent <= n
  BY CommitShape DEF Faithful
<1>3. /\ Len(revs') = n + 1 /\ revs'[n + 1] = r
      /\ \A i \in 1 .. n : revs'[i] = revs[i] /\ revs[i] \in Revision
      /\ DOMAIN revs' = 1 .. n + 1 /\ DOMAIN revs = 1 .. n
      /\ \A i \in 0 .. n : After(i) = TextAfter(i)
  BY CommitShape DEF TextAfter
<1> HIDE DEF r, n
<1>4. \A i \in 1 .. n + 1 : i = n + 1 \/ i \in 1 .. n
  BY <1>1
<1>5. r.base \in Nat /\ r.parent \in Nat /\ \A i \in 1 .. n : revs[i].base \in Nat
  BY <1>1, <1>3 DEF Revision
<1>6. TypeOK'
  BY <1>1 DEF Inv, TypeOK, Revision, Ops, Idle
<1>7. TextIsLastRevision'
  BY <1>1, <1>3 DEF TextIsLastRevision, TextAfter
<1>8. PreviousWasHeld'
  <2> SUFFICES ASSUME NEW i \in 1 .. n + 1
               PROVE  revs'[i].base < i /\ revs'[i].prev = After(revs'[i].base)
    BY <1>3 DEF PreviousWasHeld, TextAfter
  <2>1. CASE i = n + 1
    <3>1. r.base \in 0 .. n
      BY <1>1, <1>2, <1>5
    <3> QED
      BY <1>1, <1>2, <1>3, <2>1, <3>1
  <2>2. CASE i \in 1 .. n
    <3>1. revs[i].base < i /\ revs[i].prev = TextAfter(revs[i].base)
      BY <1>3, <2>2 DEF Inv, PreviousWasHeld
    <3>2. revs[i].base \in 0 .. n
      BY <1>1, <1>5, <2>2, <3>1
    <3> QED
      BY <1>3, <2>2, <3>1, <3>2
  <2> QED
    BY <1>4, <2>1, <2>2
<1>9. RollbackRestores'
  <2> SUFFICES ASSUME NEW i \in 1 .. n + 1, revs'[i].kind = "rollback"
               PROVE  revs'[i].of \in 1 .. i - 1 /\ revs'[i].new = revs'[revs'[i].of].prev
    BY <1>3 DEF RollbackRestores
  <2>1. CASE i = n + 1
    BY <1>1, <1>2, <1>3, <2>1
  <2>2. CASE i \in 1 .. n
    <3>1. revs[i].of \in 1 .. i - 1 /\ revs[i].new = revs[revs[i].of].prev
      BY <1>3, <2>2 DEF Inv, RollbackRestores
    <3>2. revs[i].of \in 1 .. n
      BY <1>1, <2>2, <3>1
    <3> QED
      BY <1>3, <2>2, <3>1, <3>2
  <2> QED
    BY <1>4, <2>1, <2>2
<1>10. ParentIsOlder'
  <2> SUFFICES ASSUME NEW i \in 1 .. n + 1
               PROVE  revs'[i].parent < i
    BY <1>3 DEF ParentIsOlder
  <2>1. CASE i = n + 1
    BY <1>1, <1>2, <1>3, <1>5, <2>1
  <2>2. CASE i \in 1 .. n
    BY <1>3, <2>2 DEF Inv, ParentIsOlder
  <2> QED
    BY <1>4, <2>1, <2>2
<1>11. ReadsHeld'
  <2>1. op'[c] = Idle /\ \A d \in Conn : d # c => op'[d] = op[d]
    BY <1>1 DEF Inv, TypeOK
  <2> SUFFICES ASSUME NEW d \in Conn, d # c
               PROVE  /\ op[d].pc = "choose" =>
                           op[d].base <= n + 1 /\ op[d].seen = After(op[d].base)
                      /\ op[d].pc \in {"parent", "commit"} => Faithful(op[d].rev)'
    BY <1>3, <2>1 DEF ReadsHeld, Idle, TextAfter
  <2>2. ASSUME op[d].pc = "choose"
        PROVE  op[d].base <= n + 1 /\ op[d].seen = After(op[d].base)
    <3>1. op[d].base \in 0 .. n /\ op[d].seen = TextAfter(op[d].base)
      BY <1>1, <2>2, OpShape DEF Inv, ReadsHeld, n
    <3> QED
      BY <1>1, <1>3, <3>1
  <2>3. ASSUME op[d].pc \in {"parent", "commit"}
        PROVE  Faithful(op[d].rev)'
    <3> DEFINE s == op[d].rev
    <3>1. s.base \in 0 .. n /\ s.parent \in Nat
      BY <1>1, <2>3, OpShape DEF Inv, ReadsHeld, Faithful, Revision, n
    <3>2. /\ s.prev = TextAfter(s.base) /\ s.new # s.prev /\ s.parent <= n
          /\ s.kind = "correct" => s.of = 0
          /\ s.kind = "rollback" => s.of \in 1 .. n /\ s.new = revs[s.of].prev
      BY <2>3 DEF Inv, ReadsHeld, Faithful, n
    <3>3. op'[d].rev = s
      BY <2>1
    <3> HIDE DEF s
    <3>4. /\ s.base <= n + 1 /\ s.parent <= n + 1 /\ s.prev = After(s.base)
          /\ s.kind = "rollback" => s.of \in 1 .. n + 1 /\ s.new = revs'[s.of].prev
      BY <1>1, <1>3, <3>1, <3>2
    <3> QED
      BY <1>3, <3>2, <3>3, <3>4 DEF Faithful, TextAfter
  <2> QED
    BY <2>2, <2>3
<1> QED
  BY <1>6, <1>7, <1>8, <1>9, <1>10, <1>11 DEF Inv

LEMMA NextInv == Inv /\ [Next]_vars => Inv'
<1> SUFFICES ASSUME Inv, [Next]_vars
             PROVE  Inv'
  OBVIOUS
<1>1. CASE UNCHANGED <<rows, op>> /\ clock' \in Nat
  BY <1>1 DEF rows, Inv, TypeOK, TextIsLastRevision, PreviousWasHeld, RollbackRestores,
     ParentIsOlder, ReadsHeld, Faithful, TextAfter
<1>2. CASE Tick \/ UNCHANGED vars
  BY <1>1, <1>2 DEF Tick, vars, rows, Inv, TypeOK
<1>3. CASE Next /\ ~Tick
  BY <1>3, ReadsInv, CommitInv DEF Next
<1> QED
  BY <1>2, <1>3

\* The rows and what connections hold stay well formed.
THEOREM TypeCorrect == Spec => []TypeOK
<1>1. Inv => TypeOK
  BY DEF Inv
<1> QED
  BY <1>1, InitInv, NextInv, PTL DEF Spec

\* Text, item and the last revision agree in every interleaving.
THEOREM TextSafe == Spec => []TextIsLastRevision
<1>1. Inv => TextIsLastRevision
  BY DEF Inv
<1> QED
  BY <1>1, InitInv, NextInv, PTL DEF Spec

\* The history invents nothing: every previous_text is what the memory held when the
\* operation read it, every rollback restores an earlier previous_text, and parents
\* are older rows.
THEOREM HistorySafe == Spec => [](PreviousWasHeld /\ RollbackRestores /\ ParentIsOlder)
<1>1. Inv => PreviousWasHeld /\ RollbackRestores /\ ParentIsOlder
  BY DEF Inv
<1> QED
  BY <1>1, InitInv, NextInv, PTL DEF Spec

----------------------------------------------------------------------------
(* As long as no operations have overlapped. *)

\* created_at never decreases along the rows, so the latest row is the last one.
Chronological ==
    AllAlone =>
        /\ \A i, j \in DOMAIN revs : i <= j => revs[i].at <= revs[j].at
        /\ \A i \in DOMAIN revs : revs[i].at <= clock

\* An operation that nobody overtook has the last row as parent and a later time.
Timely(r) ==
    r.base = Len(revs) =>
        /\ r.parent = Len(revs)
        /\ r.at <= clock
        /\ \A j \in DOMAIN revs : revs[j].at <= r.at

ReadsTimely == AllAlone => \A c \in Conn : op[c].pc = "commit" => Timely(op[c].rev)

AloneInv == ParentIsPrevious /\ Chronological /\ ReadsTimely

LEMMA LatestIsLast ==
    ASSUME Inv, Chronological, AllAlone, NEW p \in 0 .. Len(revs), IsLatestId(p)
    PROVE  p = Len(revs)
<1>1. revs \in Seq(Revision) /\ Len(revs) \in Nat /\ DOMAIN revs = 1 .. Len(revs)
  BY DEF Inv, TypeOK
<1>2. CASE revs = <<>>
  BY <1>2 DEF IsLatestId
<1>3. CASE revs # <<>>
  <2>1. Len(revs) \in 1 .. Len(revs)
    BY <1>1, <1>3
  <2>2. /\ p \in DOMAIN revs
        /\ revs[Len(revs)].at < revs[p].at \/ Len(revs) <= p
    BY <1>1, <1>3, <2>1 DEF IsLatestId, IsLatest
  <2>3. revs[p].at <= revs[Len(revs)].at
    BY <1>1, <2>1, <2>2 DEF Chronological
  <2>4. revs[p].at \in Nat /\ revs[Len(revs)].at \in Nat
    <3>1. revs[p] \in Revision /\ revs[Len(revs)] \in Revision
      BY <1>1, <2>1, <2>2
    <3> QED
      BY <3>1 DEF Revision
  <2> QED
    BY <1>1, <2>2, <2>3, <2>4
<1> QED
  BY <1>2, <1>3

LEMMA InitAloneInv == Init => AloneInv
  BY DEF Init, AloneInv, ParentIsPrevious, Chronological, ReadsTimely, Idle

LEMMA AloneReads ==
    ASSUME Inv, AloneInv, NEW c \in Conn,
           \/ \E t \in Text : CorrectRead(c, t)
           \/ RollbackRead(c)
           \/ \E r \in 1 .. Len(revs), latest \in BOOLEAN : RollbackChoose(c, r, latest)
           \/ ParentRead(c)
           \/ Abandon(c)
    PROVE  AloneInv'
<1>1. UNCHANGED <<text, item, revs, clock>>
  BY DEF CorrectRead, RollbackRead, RollbackChoose, ParentRead, Abandon, rows
<1>2. revs \in Seq(Revision) /\ Len(revs) \in Nat /\ clock \in Nat /\ DOMAIN revs = 1 .. Len(revs)
  BY DEF Inv, TypeOK
<1>3. \A d \in Conn : d # c => op'[d] = op[d]
  BY DEF CorrectRead, RollbackRead, RollbackChoose, ParentRead, Abandon, Inv, TypeOK
<1>4. ASSUME AllAlone, op'[c].pc = "commit"
      PROVE  Timely(op'[c].rev)
  <2>1. ParentRead(c)
    <3>1. ~Abandon(c)
      BY <1>4 DEF Abandon, Idle, Inv, TypeOK
    <3>2. \A t \in Text : ~CorrectRead(c, t)
      BY <1>4 DEF CorrectRead, Inv, TypeOK
    <3>3. ~RollbackRead(c)
      BY <1>4 DEF RollbackRead, Inv, TypeOK
    <3>4. \A r \in 1 .. Len(revs), latest \in BOOLEAN : ~RollbackChoose(c, r, latest)
      BY <1>4 DEF RollbackChoose, Inv, TypeOK
    <3> QED
      BY <3>1, <3>2, <3>3, <3>4
  <2>2. PICK p \in 0 .. Len(revs) :
          /\ IsLatestId(p)
          /\ op' = [op EXCEPT ![c] =
                      [pc |-> "commit", rev |-> [op[c].rev EXCEPT !.parent = p, !.at = clock]]]
    BY <2>1 DEF ParentRead, Inv, TypeOK
  <2>3. p = Len(revs)
    BY <1>4, <2>2, LatestIsLast DEF AloneInv
  <2>4. op[c].rev \in Revision
    BY <2>1, OpShape DEF ParentRead, Inv
  <2> DEFINE r == [op[c].rev EXCEPT !.parent = p, !.at = clock]
  <2>5. r.parent = p /\ r.at = clock
    BY <2>4 DEF Revision
  <2> HIDE DEF r
  <2>6. op'[c].rev = r
    BY <2>2 DEF Inv, TypeOK, r
  <2>7. clock <= clock /\ \A j \in DOMAIN revs : revs[j].at <= clock
    BY <1>2, <1>4 DEF AloneInv, Chronological
  <2> QED
    BY <2>3, <2>5, <2>6, <2>7 DEF Timely
<1>5. ReadsTimely'
  <2> SUFFICES ASSUME AllAlone, NEW d \in Conn, op'[d].pc = "commit"
               PROVE  Timely(op'[d].rev)
    BY <1>1 DEF ReadsTimely, Timely, AllAlone
  <2> QED
    BY <1>3, <1>4 DEF AloneInv, ReadsTimely
<1> QED
  BY <1>1, <1>5 DEF AloneInv, ParentIsPrevious, Chronological, AllAlone

\* Append, element by element.
LEMMA AppendAsFunction ==
    ASSUME NEW n \in Nat, NEW f, f = [i \in 1 .. n |-> f[i]], NEW e
    PROVE  Append(f, e) = [i \in 1 .. n + 1 |-> IF i = n + 1 THEN e ELSE f[i]]
<1> DEFINE S == {f[i] : i \in 1 .. n} \cup {e}
<1>1. \A i \in 1 .. n : f[i] \in S
  OBVIOUS
<1>2. e \in S
  OBVIOUS
<1> HIDE DEF S
<1>3. f \in [1 .. n -> S]
  BY <1>1
<1>4. f \in Seq(S) /\ Len(f) = n
  BY <1>3
<1> DEFINE g == Append(f, e)
<1>5. /\ g \in Seq(S) /\ Len(g) = n + 1 /\ g[n + 1] = e
      /\ \A i \in 1 .. n : g[i] = f[i]
  BY <1>2, <1>4, AppendProperties
<1> HIDE DEF g
<1>6. DOMAIN g = 1 .. n + 1 /\ g = [i \in 1 .. n + 1 |-> g[i]]
  BY <1>5
<1>7. \A i \in 1 .. n + 1 : g[i] = IF i = n + 1 THEN e ELSE f[i]
  BY <1>5
<1>8. g = [i \in 1 .. n + 1 |-> IF i = n + 1 THEN e ELSE f[i]]
  BY <1>6, <1>7
<1> QED
  BY <1>8 DEF g

\* After a commit no operations have overlapped if none had before and the one that
\* commits was not overtaken.
LEMMA AloneCommit ==
    ASSUME Inv, NEW c \in Conn, Commit(c), AllAlone'
    PROVE  AllAlone /\ op[c].rev.base = Len(revs)
<1>1. \A i \in 1 .. Len(revs) + 1 : revs'[i].base = i - 1
  BY CommitShape DEF AllAlone
<1>2. Len(revs) + 1 \in 1 .. Len(revs) + 1
  BY CommitShape
<1>3. op[c].rev.base = Len(revs)
  BY <1>1, <1>2, CommitShape
<1>4. \A i \in 1 .. Len(revs) : revs[i].base = i - 1
  BY <1>1, CommitShape
<1> QED
  BY <1>3, <1>4, CommitShape DEF AllAlone

LEMMA CommitAloneInv ==
    ASSUME Inv, AloneInv, NEW c \in Conn, Commit(c)
    PROVE  AloneInv'
<1> SUFFICES ASSUME AllAlone'
             PROVE  AloneInv'
  BY DEF AloneInv, ParentIsPrevious, Chronological, ReadsTimely
<1> DEFINE r == op[c].rev
           n == Len(revs)
<1>1. /\ r \in Revision /\ n \in Nat /\ op' = [op EXCEPT ![c] = Idle] /\ clock' = clock
      /\ Len(revs') = n + 1 /\ revs'[n + 1] = r
      /\ \A i \in 1 .. n : revs'[i] = revs[i] /\ revs[i] \in Revision
      /\ DOMAIN revs' = 1 .. n + 1 /\ DOMAIN revs = 1 .. n
  BY CommitShape
<1>2. AllAlone /\ r.base = n
  BY AloneCommit
<1>3. r.parent = n /\ r.at <= clock /\ \A j \in 1 .. n : revs[j].at <= r.at
  BY <1>1, <1>2 DEF Commit, AloneInv, ReadsTimely, Timely
<1> HIDE DEF r, n
<1>4. \A i \in 1 .. n + 1 : i = n + 1 \/ i \in 1 .. n
  BY <1>1
<1>5. ParentIsPrevious'
  <2> SUFFICES ASSUME NEW i \in 1 .. n + 1
               PROVE  revs'[i].parent = i - 1
    BY <1>1 DEF ParentIsPrevious
  <2>1. CASE i = n + 1
    BY <1>1, <1>3, <2>1
  <2>2. CASE i \in 1 .. n
    BY <1>1, <1>2, <2>2 DEF AloneInv, ParentIsPrevious
  <2> QED
    BY <1>4, <2>1, <2>2
<1>6. Chronological'
  <2>1. r.at \in Nat /\ \A i \in 1 .. n : revs[i].at \in Nat
    BY <1>1 DEF Revision
  <2>2. ASSUME NEW i \in 1 .. n + 1, NEW j \in 1 .. n + 1, i <= j
        PROVE  revs'[i].at <= revs'[j].at
    <3>1. CASE j = n + 1
      BY <1>1, <1>3, <1>4, <2>1, <3>1
    <3>2. CASE j \in 1 .. n
      <4>1. i \in 1 .. n
        BY <1>1, <2>2, <3>2
      <4> QED
        BY <1>1, <1>2, <2>2, <3>2, <4>1 DEF AloneInv, Chronological
    <3> QED
      BY <1>4, <3>1, <3>2
  <2>3. ASSUME NEW i \in 1 .. n + 1
        PROVE  revs'[i].at <= clock
    BY <1>1, <1>2, <1>3, <1>4 DEF AloneInv, Chronological
  <2> QED
    BY <1>1, <2>2, <2>3 DEF Chronological
<1>7. ReadsTimely'
  <2> SUFFICES ASSUME NEW d \in Conn, op'[d].pc = "commit", op'[d].rev.base = n + 1
               PROVE  FALSE
    BY <1>1 DEF ReadsTimely, Timely
  <2>1. d # c /\ op'[d] = op[d]
    BY <1>1 DEF Inv, TypeOK, Idle
  <2>2. op[d].rev.base <= n /\ op[d].rev.base \in Nat
    BY <2>1, OpShape DEF Inv, ReadsHeld, Faithful, Revision, n
  <2> QED
    BY <1>1, <2>1, <2>2
<1> QED
  BY <1>5, <1>6, <1>7 DEF AloneInv

\* A commit that was not overtaken is a change of the log.
LEMMA CommitImplementsLog ==
    ASSUME Inv, NEW c \in Conn, Commit(c)
    PROVE  Log!Next
<1> DEFINE r == op[c].rev
           n == Len(revs)
<1>1. /\ r \in Revision /\ n \in Nat /\ text' = r.new
      /\ Len(revs') = n + 1 /\ revs'[n + 1] = r
      /\ \A i \in 1 .. n : revs'[i] = revs[i]
      /\ DOMAIN revs' = 1 .. n + 1 /\ DOMAIN revs = 1 .. n
      /\ Faithful(r)
  BY CommitShape
<1>2. text = TextAfter(n)
  BY DEF Inv, TextIsLastRevision
<1>3. CASE ~AllAlone'
  <2>1. text' \in Text
    BY <1>1 DEF Revision
  <2>2. Log!Overlap
    BY <1>3, <2>1 DEF Log!Overlap, Entries
  <2> QED
    BY <2>2 DEF Log!Next
<1>4. CASE AllAlone'
  <2>1. AllAlone /\ r.base = n
    BY <1>4, AloneCommit
  <2>2. /\ r.prev = text /\ r.new # text
        /\ r.kind = "correct" => r.of = 0
        /\ r.kind = "rollback" => r.of \in 1 .. n /\ r.new = revs[r.of].prev
    BY <1>1, <1>2, <2>1 DEF Faithful
  <2> HIDE DEF r, n
  <2> DEFINE e == [from |-> text, to |-> r.new, of |-> r.of]
  <2>3. Entries = [i \in 1 .. n |->
                     [from |-> revs[i].prev, to |-> revs[i].new, of |-> revs[i].of]]
    BY <1>1, <2>1 DEF Entries
  <2>4. Entries' = Append(Entries, e)
    <3>1. Entries' = [i \in 1 .. n + 1 |->
                        [from |-> revs'[i].prev, to |-> revs'[i].new, of |-> revs'[i].of]]
      BY <1>1, <1>4 DEF Entries
    <3>2. Append(Entries, e) = [i \in 1 .. n + 1 |-> IF i = n + 1 THEN e ELSE Entries[i]]
      <4> HIDE DEF e
      <4>1. Entries = [i \in 1 .. n |-> Entries[i]]
        BY <2>3
      <4> QED
        BY <1>1, <4>1, AppendAsFunction
    <3>3. \A i \in 1 .. n + 1 :
            [from |-> revs'[i].prev, to |-> revs'[i].new, of |-> revs'[i].of]
              = IF i = n + 1 THEN e ELSE Entries[i]
      BY <1>1, <2>2, <2>3
    <3> QED
      BY <3>1, <3>2, <3>3
  <2>5. Log!Change(r.new, r.of)
    BY <1>1, <1>4, <2>1, <2>2, <2>4 DEF Log!Change
  <2>6. CASE r.kind = "correct"
    <3>1. r.new \in Text /\ r.of = 0
      BY <1>1, <2>2, <2>6 DEF Revision
    <3> QED
      BY <2>5, <3>1 DEF Log!Next, Log!Correct
  <2>7. CASE r.kind = "rollback"
    <3>1. r.of \in DOMAIN Entries /\ Entries[r.of].from = r.new
      BY <2>2, <2>3, <2>7
    <3>2. Log!Change(Entries[r.of].from, r.of)
      BY <2>5, <3>1
    <3> QED
      BY <3>1, <3>2 DEF Log!Next, Log!Rollback
  <2> QED
    BY <1>1, <2>6, <2>7 DEF Revision, Kinds
<1> QED
  BY <1>3, <1>4

\* Every other step leaves the rows, and so the log, alone.
LEMMA OtherSteps ==
    ASSUME [Next]_vars, \A c \in Conn : ~Commit(c)
    PROVE  UNCHANGED <<text, item, revs>>
  BY DEF Next, CorrectRead, RollbackRead, RollbackChoose, ParentRead, Abandon, Tick, rows, vars

LEMMA AloneNext ==
    ASSUME Inv, AloneInv, [Next]_vars
    PROVE  AloneInv'
<1>1. CASE Tick \/ UNCHANGED vars
  <2>1. /\ UNCHANGED <<revs, op>> /\ clock <= clock' /\ clock \in Nat /\ clock' \in Nat
    BY <1>1 DEF Tick, vars, rows, Inv, TypeOK
  <2>2. \A i \in DOMAIN revs : revs[i].at \in Nat
    <3>1. \A i \in DOMAIN revs : revs[i] \in Revision
      BY DEF Inv, TypeOK
    <3> QED
      BY <3>1 DEF Revision
  <2>3. Chronological'
    BY <2>1, <2>2 DEF AloneInv, Chronological, AllAlone
  <2>4. ReadsTimely'
    <3>1. \A c \in Conn : op[c].pc = "commit" => op[c].rev.at \in Nat
      BY OpShape DEF Inv, Revision
    <3> QED
      BY <2>1, <3>1 DEF AloneInv, ReadsTimely, Timely, AllAlone
  <2> QED
    BY <2>1, <2>3, <2>4 DEF AloneInv, ParentIsPrevious, AllAlone
<1>2. CASE ~(Tick \/ UNCHANGED vars)
  <2>1. PICK c \in Conn :
          \/ \/ \E t \in Text : CorrectRead(c, t)
             \/ RollbackRead(c)
             \/ \E r \in 1 .. Len(revs), latest \in BOOLEAN : RollbackChoose(c, r, latest)
             \/ ParentRead(c)
             \/ Abandon(c)
          \/ Commit(c)
    BY <1>2 DEF Next
  <2> QED
    BY <2>1, AloneReads, CommitAloneInv
<1> QED
  BY <1>1, <1>2

\* The history tells what happened, and as long as no operations have overlapped its
\* parents form one line.
THEOREM HistoryHoldsSafe == Spec => []HistoryHolds
<1>1. Inv /\ AloneInv /\ [Next]_vars => (Inv /\ AloneInv)'
  BY NextInv, AloneNext
<1>2. Inv /\ AloneInv => HistoryHolds
  BY DEF Inv, AloneInv, HistoryHolds
<1> QED
  BY <1>1, <1>2, InitInv, InitAloneInv, PTL DEF Spec

\* The three tables implement the revision log, as long as operations do not overlap.
THEOREM ImplementsLog == Spec => LogSpec
<1>1. Init => Log!Init
  BY OriginalAssumption DEF Init, Log!Init, Entries, AllAlone
<1>2. Inv /\ [Next]_vars => [Log!Next]_(Log!vars)
  <2> SUFFICES ASSUME Inv, [Next]_vars
               PROVE  Log!Next \/ UNCHANGED <<text, Entries, AllAlone>>
    BY DEF Log!vars
  <2>1. CASE \E c \in Conn : Commit(c)
    BY <2>1, CommitImplementsLog
  <2>2. CASE \A c \in Conn : ~Commit(c)
    BY <2>2, OtherSteps DEF Entries, AllAlone
  <2> QED
    BY <2>1, <2>2
<1> QED
  BY <1>1, <1>2, InitInv, NextInv, PTL DEF Spec, LogSpec, Log!Spec
=============================================================================
