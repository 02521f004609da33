------------------------ MODULE PropertyRegistryProofs ------------------------
(***************************************************************************)
(* Proofs about the property records and their publication.                *)
(*                                                                         *)
(* PropertyRegistry, for any number of sessions, users, properties, TDs    *)
(* and connections: savers of a TD exclude each other, an edit replaces    *)
(* what its form showed, no event is undone twice, and properties share a  *)
(* TD without the marker only after a deleted one came back.               *)
(*                                                                         *)
(* PortalPublication, for any number of office runs and of website         *)
(* instances: the served snapshot never goes back in time, a commit        *)
(* replaces the snapshot its ticket was issued for, staging files are only *)
(* removed after publication, and VERIFIED means published.                *)
(***************************************************************************)
EXTENDS PropertyRegistry, PortalPublication, FiniteSetTheorems, TLAPS

(* ------------------------------ sequences ------------------------------ *)

(* Appending adds the element at the end and leaves the rest in place.     *)
LEMMA AppendFacts ==
  ASSUME NEW S, NEW s \in Seq(S), NEW x \in S
  PROVE  /\ Append(s, x) \in Seq(S)
         /\ Len(Append(s, x)) = Len(s) + 1
         /\ DOMAIN Append(s, x) = 1 .. Len(s) + 1
         /\ DOMAIN s = 1 .. Len(s)
         /\ Len(s) \in Nat
         /\ \A i \in 1 .. Len(s) : Append(s, x)[i] = s[i]
         /\ Append(s, x)[Len(s) + 1] = x
OBVIOUS

(* The tail of a sequence is the sequence from its second element on.      *)
LEMMA TailFacts ==
  ASSUME NEW S, NEW s \in Seq(S), s # <<>>
  PROVE  /\ Tail(s) \in Seq(S)
         /\ Head(s) = s[1] /\ Head(s) \in S
         /\ Len(s) \in Nat \ {0} /\ Len(Tail(s)) = Len(s) - 1
         /\ DOMAIN s = 1 .. Len(s) /\ DOMAIN Tail(s) = 1 .. Len(s) - 1
         /\ \A i \in 1 .. Len(s) - 1 : Tail(s)[i] = s[i + 1]
OBVIOUS

Distinct(s) == \A i, j \in DOMAIN s : s[i] = s[j] => i = j
Holds(s, c) == \E i \in DOMAIN s : s[i] = c

(* What a session that takes the first connection leaves in the pool.      *)
LEMMA PoolTaken ==
  ASSUME NEW S, NEW s \in Seq(S), s # <<>>, Distinct(s)
  PROVE  /\ Tail(s) \in Seq(S) /\ Head(s) \in S /\ Distinct(Tail(s))
         /\ Holds(s, Head(s)) /\ ~Holds(Tail(s), Head(s))
         /\ \A c : Holds(s, c) <=> Holds(Tail(s), c) \/ c = Head(s)
<1>1. /\ Tail(s) \in Seq(S)
      /\ Head(s) = s[1] /\ Head(s) \in S
      /\ Len(s) \in Nat \ {0} /\ Len(Tail(s)) = Len(s) - 1
      /\ DOMAIN s = 1 .. Len(s) /\ DOMAIN Tail(s) = 1 .. Len(s) - 1
      /\ \A i \in 1 .. Len(s) - 1 : Tail(s)[i] = s[i + 1]
  BY TailFacts
<1>2. Distinct(Tail(s))
  BY <1>1 DEF Distinct
<1>3. Holds(s, Head(s))
  BY <1>1 DEF Holds
<1>4. ~Holds(Tail(s), Head(s))
  BY <1>1 DEF Holds, Distinct
<1>5. ASSUME NEW c PROVE Holds(s, c) <=> Holds(Tail(s), c) \/ c = Head(s)
  <2>1. ASSUME Holds(s, c), c # Head(s) PROVE Holds(Tail(s), c)
    <3>1. PICK i \in 1 .. Len(s) : s[i] = c
      BY <2>1, <1>1 DEF Holds
    <3>2. i - 1 \in 1 .. Len(s) - 1 /\ Tail(s)[i - 1] = c
      BY <3>1, <2>1, <1>1
    <3> QED BY <3>2, <1>1 DEF Holds
  <2>2. ASSUME Holds(Tail(s), c) PROVE Holds(s, c)
    <3>1. PICK i \in 1 .. Len(s) - 1 : Tail(s)[i] = c
      BY <2>2, <1>1 DEF Holds
    <3>2. i + 1 \in 1 .. Len(s) /\ s[i + 1] = c
      BY <3>1, <1>1
    <3> QED BY <3>2, <1>1 DEF Holds
  <2> QED BY <2>1, <2>2, <1>3
<1> QED BY <1>1, <1>2, <1>3, <1>4, <1>5

(* What a session that gives back its connection leaves in the pool.       *)
LEMMA PoolReturned ==
  ASSUME NEW S, NEW s \in Seq(S), NEW c \in S, Distinct(s), ~Holds(s, c)
  PROVE  /\ Append(s, c) \in Seq(S) /\ Distinct(Append(s, c))
         /\ \A d : Holds(Append(s, c), d) <=> Holds(s, d) \/ d = c
<1>1. /\ Append(s, c) \in Seq(S)
      /\ DOMAIN Append(s, c) = 1 .. Len(s) + 1
      /\ DOMAIN s = 1 .. Len(s) /\ Len(s) \in Nat
      /\ \A i \in 1 .. Len(s) : Append(s, c)[i] = s[i]
      /\ Append(s, c)[Len(s) + 1] = c
  BY AppendFacts
<1>2. \A i \in 1 .. Len(s) + 1 : i \in 1 .. Len(s) \/ i = Len(s) + 1
  BY <1>1
<1>3. Distinct(Append(s, c))
  <2> SUFFICES ASSUME NEW i \in 1 .. Len(s) + 1, NEW j \in 1 .. Len(s) + 1,
                      Append(s, c)[i] = Append(s, c)[j]
               PROVE  i = j
    BY <1>1 DEF Distinct
  <2>1. \A k \in 1 .. Len(s) : Append(s, c)[k] # c
    BY <1>1 DEF Holds
  <2> QED BY <1>1, <1>2, <2>1 DEF Distinct
<1>4. ASSUME NEW d PROVE Holds(Append(s, c), d) <=> Holds(s, d) \/ d = c
  <2>1. Holds(s, d) => Holds(Append(s, c), d)
    BY <1>1, <1>2 DEF Holds
  <2>2. d = c => Holds(Append(s, c), d)
    BY <1>1 DEF Holds
  <2>3. Holds(Append(s, c), d) => Holds(s, d) \/ d = c
    BY <1>1, <1>2 DEF Holds
  <2> QED BY <2>1, <2>2, <2>3
<1> QED BY <1>1, <1>3, <1>4

(* Using the first connection and giving it back turns the pool round.     *)
LEMMA PoolRotated ==
  ASSUME NEW S, NEW s \in Seq(S), s # <<>>, Distinct(s)
  PROVE  LET t == Append(Tail(s), Head(s))
         IN  /\ t \in Seq(S) /\ Distinct(t)
             /\ \A c : Holds(t, c) <=> Holds(s, c)
<1>1. /\ Tail(s) \in Seq(S) /\ Head(s) \in S /\ Distinct(Tail(s))
      /\ ~Holds(Tail(s), Head(s))
      /\ \A c : Holds(s, c) <=> Holds(Tail(s), c) \/ c = Head(s)
  BY PoolTaken
<1>2. /\ Append(Tail(s), Head(s)) \in Seq(S) /\ Distinct(Append(Tail(s), Head(s)))
      /\ \A d : Holds(Append(Tail(s), Head(s)), d) <=> Holds(Tail(s), d) \/ d = Head(s)
  BY <1>1, PoolReturned
<1> QED BY <1>1, <1>2

(* -------------------------------- values ------------------------------- *)

(* An open form is not the empty slot.                                     *)
LEMMA FormIsNotNone ==
  ASSUME NEW f \in [prop : Props, ver : Nat, at : Nat]
  PROVE  f # NoForm
BY DEF NoForm

LEMMA EventIsNotNone ==
  ASSUME NEW e \in Event
  PROVE  e # NoEvent /\ e.undoes \in Nat /\ e.prop \in Props
BY DEF Event, NoEvent

(* ---------------------------- what a save does -------------------------- *)

(* The group of a TD, row by row.                                          *)
LEMMA ActiveIff ==
  ASSUME NEW v, NEW t, NEW q \in Props
  PROVE  q \in Active(v, t) <=> v[q] # NoRow /\ v[q].live /\ v[q].td = t
BY DEF Active

LEMMA RowFacts ==
  ASSUME NEW x \in Row
  PROVE  /\ x # NoRow /\ x.td \in TDs /\ x.ver \in Nat \ {0}
         /\ x.live \in BOOLEAN /\ x.verified \in BOOLEAN
BY RegistryAssumption DEF Row

(* Marking: the saved row gets the TD and the next version; other rows     *)
(* keep all but their marker.                                              *)
LEMMA MarkedFacts ==
  ASSUME NEW v \in [Props -> Row \cup {NoRow}], NEW p \in Props, NEW t \in TDs
  PROVE  LET w == Marked(v, p, t)
         IN  /\ w \in [Props -> Row \cup {NoRow}]
             /\ w[p] \in Row /\ w[p].td = t
             /\ w[p].ver = IF v[p] = NoRow THEN 1 ELSE v[p].ver + 1
             /\ w[p].live = (v[p] = NoRow \/ v[p].live)
             /\ \A q \in Props \ {p} :
                   /\ w[q] = NoRow <=> v[q] = NoRow
                   /\ v[q] # NoRow => /\ w[q] \in Row
                                      /\ w[q].td = v[q].td /\ w[q].ver = v[q].ver
                                      /\ w[q].live = v[q].live
                                      /\ v[q].verified => w[q].verified
<1> DEFINE dups == Active(v, t) \ {p}
           keeps == dups # {} \/ OldTD(v, p) = t
           mark == Authorizing(v, p, t) \/ (keeps /\ v[p] # NoRow /\ v[p].verified)
           new == [td |-> t, verified |-> mark,
                   ver |-> IF v[p] = NoRow THEN 1 ELSE v[p].ver + 1,
                   live |-> v[p] = NoRow \/ v[p].live]
           w == Marked(v, p, t)
<1>1. \A q \in Props : v[q] # NoRow => v[q] \in Row
  OBVIOUS
<1>2. mark \in BOOLEAN
  <2>1. Authorizing(v, p, t) \in BOOLEAN
    BY DEF Authorizing
  <2>2. v[p] # NoRow => v[p].verified \in BOOLEAN
    BY <1>1, RowFacts
  <2> HIDE DEF keeps
  <2> QED BY <2>1, <2>2
<1>3. new \in Row
  <2>1. (IF v[p] = NoRow THEN 1 ELSE v[p].ver + 1) \in Nat \ {0}
    BY <1>1, RowFacts
  <2>2. (v[p] = NoRow \/ v[p].live) \in BOOLEAN
    OBVIOUS
  <2> HIDE DEF mark
  <2> QED BY <1>2, <2>1, <2>2 DEF Row
<1>4. \A q \in Props :
        w[q] = IF q = p THEN new
               ELSE IF q \in dups /\ Authorizing(v, p, t)
                    THEN [v[q] EXCEPT !.verified = TRUE]
                    ELSE v[q]
  BY DEF Marked
<1>5. \A q \in Props : q \in dups => v[q] # NoRow
  BY DEF Active
<1>6. w = [q \in Props |-> w[q]]
  BY DEF Marked
<1>7. w[p] = new
  BY <1>4
<1>8. /\ new.td = t
      /\ new.ver = IF v[p] = NoRow THEN 1 ELSE v[p].ver + 1
      /\ new.live = (v[p] = NoRow \/ v[p].live)
  <2> HIDE DEF mark
  <2> QED OBVIOUS
<1> HIDE DEF w, new, dups, mark, keeps
<1>9. ASSUME NEW q \in Props \ {p}
      PROVE  /\ w[q] = NoRow <=> v[q] = NoRow
             /\ v[q] # NoRow => /\ w[q] \in Row
                                /\ w[q].td = v[q].td /\ w[q].ver = v[q].ver
                                /\ w[q].live = v[q].live
                                /\ v[q].verified => w[q].verified
  <2>1. CASE v[q] = NoRow
    BY <2>1, <1>4, <1>5
  <2>2. CASE v[q] # NoRow
    <3>1. v[q] \in Row
      BY <1>1, <2>2
    <3>2. CASE w[q] = [v[q] EXCEPT !.verified = TRUE]
      <4>1. w[q] \in Row /\ w[q].td = v[q].td /\ w[q].ver = v[q].ver
            /\ w[q].live = v[q].live /\ w[q].verified
        BY <3>1, <3>2 DEF Row
      <4> QED BY <2>2, <4>1, RowFacts
    <3>3. CASE w[q] = v[q]
      BY <2>2, <3>1, <3>3
    <3> QED BY <3>2, <3>3, <1>4
  <2> QED BY <2>1, <2>2
<1>10. w \in [Props -> Row \cup {NoRow}]
  <2>1. \A q \in Props : w[q] \in Row \cup {NoRow}
    BY <1>3, <1>7, <1>9
  <2> QED BY <1>6, <2>1
<1> QED BY <1>3, <1>7, <1>8, <1>9, <1>10 DEF w

(* A save: the marker of an account left alone is cleared as well.         *)
LEMMA SavedFacts ==
  ASSUME NEW v \in [Props -> Row \cup {NoRow}], NEW p \in Props, NEW t \in TDs
  PROVE  LET w == Saved(v, p, t)
         IN  /\ w \in [Props -> Row \cup {NoRow}]
             /\ w[p] \in Row
             /\ w[p].ver = IF v[p] = NoRow THEN 1 ELSE v[p].ver + 1
             /\ \A q \in Props \ {p} :
                   /\ w[q] = NoRow <=> v[q] = NoRow
                   /\ v[q] # NoRow => w[q] \in Row /\ w[q].ver = v[q].ver
             /\ \A q \in Props : w[q] # NoRow =>
                   /\ w[q].td = Marked(v, p, t)[q].td
                   /\ w[q].live = Marked(v, p, t)[q].live
<1> DEFINE m == Marked(v, p, t)
           w == Saved(v, p, t)
<1>1. /\ m \in [Props -> Row \cup {NoRow}]
      /\ m[p] \in Row
      /\ m[p].ver = IF v[p] = NoRow THEN 1 ELSE v[p].ver + 1
      /\ \A q \in Props \ {p} :
            /\ m[q] = NoRow <=> v[q] = NoRow
            /\ v[q] # NoRow => m[q] \in Row /\ m[q].ver = v[q].ver
  BY MarkedFacts
<1>2. /\ w = [q \in Props |-> w[q]]
      /\ \A q \in Props : w[q] = IF q \in LeftAlone(m, v, p)
                                THEN [m[q] EXCEPT !.verified = FALSE] ELSE m[q]
  BY DEF Saved
<1>3. \A q \in LeftAlone(m, v, p) : q \in Props /\ m[q] # NoRow
  BY DEF LeftAlone, Active
<1> HIDE DEF w, m
<1>4. ASSUME NEW q \in Props
      PROVE  /\ w[q] = NoRow <=> m[q] = NoRow
             /\ m[q] # NoRow => /\ w[q] \in Row /\ w[q].ver = m[q].ver
                                /\ w[q].td = m[q].td /\ w[q].live = m[q].live
  <2>1. CASE w[q] = m[q]
    BY <2>1, <1>1
  <2>2. CASE q \in LeftAlone(m, v, p) /\ w[q] = [m[q] EXCEPT !.verified = FALSE]
    <3>1. m[q] \in Row /\ m[q] # NoRow
      BY <2>2, <1>1, <1>3
    <3>2. w[q] \in Row /\ w[q].ver = m[q].ver /\ w[q].td = m[q].td /\ w[q].live = m[q].live
      BY <3>1, <2>2 DEF Row
    <3> QED BY <3>1, <3>2, RowFacts
  <2> QED BY <2>1, <2>2, <1>2
<1>5. w \in [Props -> Row \cup {NoRow}]
  <2>1. \A q \in Props : w[q] \in Row \cup {NoRow}
    BY <1>4
  <2> QED BY <2>1, <1>2
<1>6. m[p] # NoRow
  BY <1>1, RowFacts
<1> QED BY <1>1, <1>4, <1>5, <1>6 DEF w, m

(* A save keeps every group of a TD that was clean: the saved account      *)
(* joins one only with the marker on all of it, or it is deleted itself.   *)
LEMMA SaveKeepsGroupsClean ==
  ASSUME NEW v \in [Props -> Row \cup {NoRow}], NEW p \in Props, NEW t \in TDs
  PROVE  KeepsGroupsClean(v, Saved(v, p, t))
<1> DEFINE m == Marked(v, p, t)
           w == Saved(v, p, t)
           dups == Active(v, t) \ {p}
<1> SUFFICES ASSUME NEW s \in TDs, Clean(v, s)
             PROVE  Clean(w, s)
  BY DEF KeepsGroupsClean
<1>1. \A q \in Props : w[q] = IF q \in LeftAlone(m, v, p)
                             THEN [m[q] EXCEPT !.verified = FALSE] ELSE m[q]
  BY DEF Saved
<1>2. /\ m[p] # NoRow /\ m[p].td = t
      /\ m[p].live = (v[p] = NoRow \/ v[p].live)
      /\ \A q \in Props \ {p} :
            /\ m[q] = NoRow <=> v[q] = NoRow
            /\ v[q] # NoRow => /\ m[q].td = v[q].td /\ m[q].live = v[q].live
                               /\ v[q].verified => m[q].verified
  BY MarkedFacts, RowFacts
<1>3. /\ m[p].verified = (\/ Authorizing(v, p, t)
                          \/ /\ dups # {} \/ OldTD(v, p) = t
                             /\ v[p] # NoRow /\ v[p].verified)
      /\ \A q \in dups : Authorizing(v, p, t) => m[q].verified
  <2>1. \A q \in dups : v[q] # NoRow /\ v[q] \in Row
    BY DEF Active
  <2>2. \A q \in dups : q \in Props /\ q # p
    BY DEF Active
  <2>3. \A q \in dups : Authorizing(v, p, t) => m[q] = [v[q] EXCEPT !.verified = TRUE]
    BY <2>2 DEF Marked
  <2>4. \A q \in dups : Authorizing(v, p, t) => m[q].verified
    BY <2>1, <2>3 DEF Row
  <2>5. m[p].verified = (\/ Authorizing(v, p, t)
                         \/ /\ dups # {} \/ OldTD(v, p) = t
                            /\ v[p] # NoRow /\ v[p].verified)
    BY DEF Marked
  <2> QED BY <2>4, <2>5
<1>4. \A q \in Props : /\ w[q] = NoRow <=> m[q] = NoRow
                       /\ w[q] # NoRow => w[q].td = m[q].td /\ w[q].live = m[q].live
  <2>1. m \in [Props -> Row \cup {NoRow}]
    BY MarkedFacts
  <2>2. \A q \in LeftAlone(m, v, p) : q \in Props /\ m[q] # NoRow /\ m[q] \in Row
    BY <2>1 DEF LeftAlone, Active
  <2>3. \A q \in LeftAlone(m, v, p) :
           [m[q] EXCEPT !.verified = FALSE] \in Row
    BY <2>2 DEF Row
  <2>4. \A q \in LeftAlone(m, v, p) : w[q] # NoRow
    BY <1>1, <2>2, <2>3, RowFacts
  <2>5. \A q \in Props : w[q] # NoRow => w[q].td = m[q].td /\ w[q].live = m[q].live
    BY SavedFacts
  <2> QED BY <1>1, <2>2, <2>4, <2>5
<1>5. Active(w, s) = Active(m, s)
  BY <1>4 DEF Active
<1>6. \A q \in Props \ {p} : q \in Active(m, s) <=> q \in Active(v, s)
  BY <1>2 DEF Active
<1>7. p \in Active(m, s) => s = t
  BY <1>2 DEF Active
<1> SUFFICES ASSUME NEW q \in Active(m, s), Active(m, s) # {q}
             PROVE  w[q].verified
  BY <1>5 DEF Clean
<1>8. q \in Props /\ m[q].td = s
  BY DEF Active
<1>9. q \notin LeftAlone(m, v, p)
  <2> SUFFICES ASSUME q \in LeftAlone(m, v, p) PROVE FALSE
    OBVIOUS
  <2>1. Active(m, OldTD(v, p)) = {q}
    BY DEF LeftAlone
  <2>2. OldTD(v, p) = m[q].td
    BY <2>1 DEF Active
  <2> QED BY <2>1, <2>2, <1>8
<1>10. w[q] = m[q]
  BY <1>1, <1>8, <1>9
<1>11. PICK k \in Active(m, s) : k # q
  OBVIOUS
<1>12. k \in Props
  BY DEF Active
<1>13. CASE s # t
  <2>1. q # p /\ k # p
    BY <1>7, <1>11, <1>13
  <2>2. q \in Active(v, s) /\ k \in Active(v, s)
    BY <2>1, <1>6, <1>8, <1>12
  <2>3. v[q].verified
    BY <2>2, <1>11 DEF Clean
  <2>4. v[q] # NoRow
    BY <2>2 DEF Active
  <2> QED BY <2>1, <2>3, <2>4, <1>2, <1>8, <1>10
<1>14. CASE s = t /\ q # p
  <2>1. q \in Active(v, t) /\ q \in dups
    BY <1>6, <1>8, <1>14
  <2>2. CASE Authorizing(v, p, t)
    BY <2>1, <2>2, <1>3, <1>10
  <2>3. CASE ~Authorizing(v, p, t)
    <3>1. v[q].verified
      BY <2>1, <2>3 DEF Authorizing, UnchangedVerifiedGroup
    <3>2. v[q] # NoRow
      BY <2>1 DEF Active
    <3> QED BY <3>1, <3>2, <1>2, <1>8, <1>10, <1>14
  <2> QED BY <2>2, <2>3
<1>15. CASE s = t /\ q = p
  <2>1. k \in dups
    BY <1>6, <1>11, <1>12, <1>15
  <2>2. CASE Authorizing(v, p, t)
    BY <2>2, <1>3, <1>10, <1>15
  <2>3. CASE ~Authorizing(v, p, t)
    <3>1. v[p] # NoRow /\ v[p].verified
      BY <2>1, <2>3 DEF Authorizing, UnchangedVerifiedGroup
    <3> QED BY <3>1, <2>1, <1>3, <1>10, <1>15
  <2> QED BY <2>2, <2>3
<1> QED BY <1>13, <1>14, <1>15

(* Deleting keeps every clean group, and bringing a property back is what  *)
(* the property makes the exception for.                                   *)
LEMMA LiveKeepsGroupsClean ==
  ASSUME NEW v \in [Props -> Row \cup {NoRow}], NEW p \in Props, v[p] # NoRow,
         NEW b \in BOOLEAN
  PROVE  LET w == [v EXCEPT ![p].live = b]
         IN  /\ w \in [Props -> Row \cup {NoRow}]
             /\ \A q \in Props : w[q] = NoRow <=> v[q] = NoRow
             /\ \A q \in Props : v[q] # NoRow => w[q].ver = v[q].ver
             /\ KeepsGroupsClean(v, w)
<1> DEFINE w == [v EXCEPT ![p].live = b]
<1>1. v[p] \in Row
  OBVIOUS
<1>2. /\ w[p] \in Row /\ w[p].live = b
      /\ w[p].td = v[p].td /\ w[p].ver = v[p].ver /\ w[p].verified = v[p].verified
  <2>1. w[p] = [v[p] EXCEPT !.live = b]
    OBVIOUS
  <2> HIDE DEF w
  <2> QED BY <2>1, <1>1 DEF Row
<1>3. \A q \in Props \ {p} : w[q] = v[q]
  OBVIOUS
<1>4. w \in [Props -> Row \cup {NoRow}]
  <2>1. \A q \in Props : w[q] \in Row \cup {NoRow}
    BY <1>2, <1>3
  <2>2. w = [q \in Props |-> w[q]]
    OBVIOUS
  <2> HIDE DEF w
  <2> QED BY <2>1, <2>2
<1> HIDE DEF w
<1>5. w[p] # NoRow
  BY <1>2, RowFacts
<1>6. ASSUME NEW t \in TDs, Clean(v, t), ~Clean(w, t)
      PROVE  \E q \in Active(w, t) : v[q] # NoRow /\ ~v[q].live
  <2>1. CASE v[p].live \/ ~b \/ v[p].td # t
    <3>1. Active(w, t) \subseteq Active(v, t)
      BY <2>1, <1>2, <1>3, <1>5 DEF Active
    <3>2. \A q \in Props : v[q] # NoRow => w[q].verified = v[q].verified
      BY <1>2, <1>3
    <3>3. \A q \in Active(v, t) : q \in Props /\ v[q] # NoRow
      BY DEF Active
    <3>4. ASSUME NEW q \in Active(w, t), Active(w, t) # {q} PROVE w[q].verified
      <4>1. Active(v, t) # {q}
        BY <3>1, <3>4
      <4> QED BY <4>1, <1>6, <3>1, <3>2, <3>3, <3>4 DEF Clean
    <3> QED BY <3>4, <1>6 DEF Clean
  <2>2. CASE ~v[p].live /\ b /\ v[p].td = t
    <3>1. p \in Active(w, t)
      BY <2>2, <1>2, <1>5 DEF Active
    <3> QED BY <3>1, <2>2
  <2> QED BY <2>1, <2>2
<1>7. KeepsGroupsClean(v, w)
  BY <1>6 DEF KeepsGroupsClean
<1> QED BY <1>2, <1>3, <1>4, <1>5, <1>7 DEF w

(* ------------------------------- the steps ------------------------------ *)

(* The initial state satisfies the invariant.                              *)
LEMMA InitInv == Init => RegistryInv
<1> SUFFICES ASSUME Init PROVE RegistryInv
  OBVIOUS
<1>1. rows \in [Props -> Row \cup {NoRow}]
  <2>1. [td : TDs, ver : {1}, live : {TRUE}, verified : {FALSE}] \subseteq Row
    <3> SUFFICES ASSUME NEW x \in [td : TDs, ver : {1}, live : {TRUE}, verified : {FALSE}]
                 PROVE  x \in Row
      OBVIOUS
    <3>1. x.td \in TDs /\ x.ver = 1 /\ x.live = TRUE /\ x.verified = FALSE
      OBVIOUS
    <3>2. x = [td |-> x.td, ver |-> x.ver, live |-> x.live, verified |-> x.verified]
      OBVIOUS
    <3>3. [td |-> x.td, ver |-> 1, live |-> TRUE, verified |-> FALSE] \in Row
      BY <3>1 DEF Row
    <3> QED BY ONLY <3>1, <3>2, <3>3
  <2> QED BY <2>1 DEF Init, Registered
<1>2. log = <<>> /\ pending = NoEvent /\ auditor = NoReq
  BY DEF Init
<1>3. \A q \in Requests :
        /\ pc[q] = "idle" /\ conn[q] = NoConn /\ seen[q] = 0
        /\ form[q] = NoForm /\ want[q] = NoTD /\ touched[q] = {}
  BY DEF Init
<1>4. pool \in Seq(Conns) /\ \A i, j \in DOMAIN pool : pool[i] = pool[j] => i = j
  <2>1. Cardinality(Conns) \in Nat
    BY RegistryAssumption, FS_CardinalityType
  <2>2. pool \in [1 .. Cardinality(Conns) -> Conns]
    BY DEF Init
  <2>3. pool \in Seq(Conns)
    BY <2>1, <2>2
  <2> QED BY <2>3 DEF Init
<1>5. TypeOK
  BY <1>1, <1>2, <1>4, RegistryAssumption DEF TypeOK, Init, NoRows
<1>6. ConnInv
  <2>1. \A i \in DOMAIN pool : pool[i] # NoConn
    BY <1>4, RegistryAssumption
  <2> QED BY <1>3, <1>4, <2>1 DEF ConnInv, Working
<1>7. ControlInv
  BY <1>3 DEF ControlInv, Working
<1>8. SaversHoldTheirLock
  BY <1>3 DEF SaversHoldTheirLock
<1>9. AuditInv
  BY <1>2, <1>3, RegistryAssumption DEF AuditInv, Working
<1>10. SnapshotInv /\ FormInv /\ StagedInv
  BY <1>3 DEF SnapshotInv, FormInv, StagedInv, Working
<1>11. UndoneOnce
  BY <1>2 DEF UndoneOnce
<1>12. LockInv
  BY DEF LockInv, Init
<1> QED BY <1>12, <1>5, <1>6, <1>7, <1>8, <1>9, <1>10, <1>11 DEF RegistryInv

(* Opening a form: the id of an empty one is not in another form.          *)
LEMMA OpenPreserves ==
  ASSUME RegistryInv, NEW r \in Requests, NEW p \in Props, Open(r, p)
  PROVE  RegistryInv'
<1> DEFINE f == [prop |-> p, ver |-> IF rows[p] = NoRow THEN 0 ELSE rows[p].ver,
                 at |-> Len(log)]
<1>1. TypeOK /\ ConnInv /\ LockInv /\ ControlInv /\ SaversHoldTheirLock /\ AuditInv
      /\ SnapshotInv /\ FormInv /\ StagedInv /\ UndoneOnce
  BY DEF RegistryInv
<1>2. /\ pc[r] = "idle" /\ pc' = [pc EXCEPT ![r] = "form"]
      /\ rows[p] = NoRow => \A q \in Requests : ~Creates(q, p)
      /\ form' = [form EXCEPT ![r] = f]
      /\ UNCHANGED <<rows, log, auditor, pending, named, depth, pool,
                     user, conn, view, seen, want, touched>>
  BY DEF Open, audit, lockVars
<1>3. \A q \in Requests : /\ pc'[q] = IF q = r THEN "form" ELSE pc[q]
                          /\ form'[q] = IF q = r THEN f ELSE form[q]
  BY <1>1, <1>2 DEF TypeOK
<1>4. rows[p] # NoRow => rows[p].ver \in Nat \ {0}
  BY <1>1, RowFacts DEF TypeOK
<1>5. f \in [prop : Props, ver : Nat, at : Nat] /\ f # NoForm
  <2>1. Len(log) \in Nat
    BY <1>1 DEF TypeOK
  <2>2. f \in [prop : Props, ver : Nat, at : Nat]
    BY <2>1, <1>4
  <2> QED BY <2>2, FormIsNotNone
<1>6. /\ f.prop = p /\ f.at = Len(log)
      /\ f.ver = 0 => rows[p] = NoRow
      /\ f.ver # 0 => rows[p] # NoRow /\ f.ver = rows[p].ver
  BY <1>4
<1> HIDE DEF f
<1>7. TypeOK'
  BY <1>1, <1>2, <1>5 DEF TypeOK
<1>8. ConnInv' /\ ControlInv'
  BY <1>1, <1>2, <1>3, <1>5 DEF ConnInv, ControlInv, Working
<1>9. SaversHoldTheirLock'
  BY <1>1, <1>2, <1>3 DEF SaversHoldTheirLock
<1>10. AuditInv'
  BY <1>1, <1>2, <1>3 DEF AuditInv, Working
<1>11. SnapshotInv'
  BY <1>1, <1>2, <1>3 DEF SnapshotInv
<1>12. FormInv'
  <2> SUFFICES ASSUME NEW q \in Requests, pc'[q] \in Working \cup {"form"}
               PROVE  FormOK(q)'
    BY DEF FormInv
  <2>1. CASE q = r
    <3>1. \A o \in Requests : Creates(o, p)' /\ f.ver = 0 => o = r
      BY <1>2, <1>3, <1>6 DEF Creates
    <3>2. Len(log) + 1 .. Len(log) = {}
      BY <1>1 DEF TypeOK
    <3>3. f.ver # 0 => f.ver <= rows[p].ver
      BY <1>4, <1>6
    <3> QED BY <2>1, <3>1, <3>2, <3>3, <1>2, <1>3, <1>6 DEF FormOK
  <2>2. CASE q # r
    <3>1. FormOK(q) /\ form[q] # NoForm
      BY <2>2, <1>1, <1>3 DEF FormInv, ControlInv
    <3>2. form[q].ver = 0 => ~Creates(r, form[q].prop)'
      <4>1. form[q].ver = 0 => rows[form[q].prop] = NoRow /\ Creates(q, form[q].prop)
        BY <3>1 DEF FormOK, Creates
      <4>2. Creates(r, form[q].prop)' => form[q].prop = p
        BY <1>2, <1>3, <1>6, <2>2 DEF Creates
      <4> QED BY ONLY <4>1, <4>2, <1>2
    <3>3. \A o \in Requests \ {r} : Creates(o, form[q].prop)' <=> Creates(o, form[q].prop)
      BY <1>3, <2>2 DEF Creates
    <3> QED BY <2>2, <3>1, <3>2, <3>3, <1>2, <1>3 DEF FormOK, FormCurrent
  <2> QED BY <2>1, <2>2
<1>13. StagedInv'
  <2> SUFFICES ASSUME NEW q \in Requests, pc'[q] = "staged"
               PROVE  StagedOK(q)'
    BY DEF StagedInv
  <2>1. q # r /\ StagedOK(q)
    BY <1>1, <1>3 DEF StagedInv
  <2>2. \A o \in Props : Creates(q, o)' = Creates(q, o)
    BY <2>1, <1>3 DEF Creates
  <2> QED BY <2>1, <2>2, <1>2 DEF StagedOK, KeepsGroupsClean, Clean, Active
<1>14. UndoneOnce' /\ LockInv'
  BY <1>1, <1>2 DEF UndoneOnce, LockInv
<1> QED BY <1>7, <1>8, <1>9, <1>10, <1>11, <1>12, <1>13, <1>14 DEF RegistryInv

(* The pool's part of the invariant, in the words of the lemmas above.     *)
LEMMA ConnInvIff ==
  ConnInv <=>
    /\ Distinct(pool)
    /\ \A r \in Requests :
          /\ conn[r] # NoConn <=> pc[r] \in Working
          /\ ~Holds(pool, conn[r])
          /\ \A q \in Requests : conn[r] # NoConn /\ conn[q] = conn[r] => q = r
BY DEF ConnInv, Distinct, Holds

(* A request takes the first connection of the pool and its snapshot.      *)
LEMMA BeginPreserves ==
  ASSUME RegistryInv, NEW r \in Requests, Begin(r)
  PROVE  RegistryInv'
<1>1. TypeOK /\ ConnInv /\ LockInv /\ ControlInv /\ SaversHoldTheirLock /\ AuditInv
      /\ SnapshotInv /\ FormInv /\ StagedInv /\ UndoneOnce
  BY DEF RegistryInv
<1>2. /\ pc[r] = "form" /\ pc' = [pc EXCEPT ![r] = "open"]
      /\ pool # <<>> /\ pool' = Tail(pool)
      /\ conn' = [conn EXCEPT ![r] = Head(pool)]
      /\ view' = [view EXCEPT ![r] = rows]
      /\ seen' = [seen EXCEPT ![r] = Len(log)]
      /\ UNCHANGED <<rows, log, auditor, pending, named, depth, user, form, want, touched>>
  BY DEF Begin, audit
<1>3. \A q \in Requests :
        /\ pc'[q] = IF q = r THEN "open" ELSE pc[q]
        /\ conn'[q] = IF q = r THEN Head(pool) ELSE conn[q]
        /\ view'[q] = IF q = r THEN rows ELSE view[q]
        /\ seen'[q] = IF q = r THEN Len(log) ELSE seen[q]
  BY <1>1, <1>2 DEF TypeOK
<1>4. pool \in Seq(Conns) /\ Len(log) \in Nat
  BY <1>1 DEF TypeOK
<1>5. /\ pool' \in Seq(Conns) /\ Head(pool) \in Conns /\ Distinct(pool')
      /\ Holds(pool, Head(pool)) /\ ~Holds(pool', Head(pool))
      /\ \A c : Holds(pool, c) <=> Holds(pool', c) \/ c = Head(pool)
  BY <1>1, <1>2, <1>4, PoolTaken, ConnInvIff
<1>6. Head(pool) # NoConn
  BY <1>5, RegistryAssumption
<1>7. TypeOK'
  BY <1>1, <1>2, <1>4, <1>5 DEF TypeOK
<1>8. ConnInv'
  <2>1. \A q \in Requests :
          /\ conn[q] # NoConn <=> pc[q] \in Working
          /\ ~Holds(pool, conn[q])
          /\ \A o \in Requests : conn[q] # NoConn /\ conn[o] = conn[q] => o = q
    BY <1>1, ConnInvIff
  <2>2. Distinct(pool)'
    BY <1>5 DEF Distinct
  <2>3. \A q \in Requests : ~Holds(pool', conn'[q])
    BY <2>1, <1>3, <1>5
  <2>4. \A q \in Requests \ {r} : conn'[q] # Head(pool)
    BY <2>1, <1>3, <1>5
  <2> QED BY <2>1, <2>2, <2>3, <2>4, <1>3, <1>6 DEF ConnInv, Distinct, Holds, Working
<1>9. ControlInv'
  BY <1>1, <1>2, <1>3 DEF ControlInv, Working
<1>10. SaversHoldTheirLock'
  BY <1>1, <1>2, <1>3 DEF SaversHoldTheirLock
<1>11. AuditInv'
  BY <1>1, <1>2, <1>3, <1>4 DEF AuditInv, Working
<1>12. SnapshotInv'
  <2>1. \A e \in 1 .. Len(log) : e \in DOMAIN log
    BY <1>1 DEF TypeOK
  <2> QED BY <2>1, <1>1, <1>2, <1>3 DEF SnapshotInv, AuditInv
<1>13. FormInv'
  <2> SUFFICES ASSUME NEW q \in Requests, pc'[q] \in Working \cup {"form"}
               PROVE  FormOK(q)'
    BY DEF FormInv
  <2>1. FormOK(q)
    BY <1>1, <1>2, <1>3 DEF FormInv
  <2>2. \A o \in Requests : \A x : Creates(o, x)' <=> Creates(o, x)
    BY <1>2 DEF Creates
  <2> QED BY <2>1, <2>2, <1>2, <1>3 DEF FormOK, FormCurrent, Creates
<1>14. StagedInv'
  <2> SUFFICES ASSUME NEW q \in Requests, pc'[q] = "staged"
               PROVE  StagedOK(q)'
    BY DEF StagedInv
  <2>1. q # r /\ StagedOK(q)
    BY <1>1, <1>3 DEF StagedInv
  <2> QED BY <2>1, <1>2, <1>3 DEF StagedOK, KeepsGroupsClean, Clean, Active, Creates
<1>15. UndoneOnce' /\ LockInv'
  BY <1>1, <1>2 DEF UndoneOnce, LockInv
<1> QED BY <1>7, <1>8, <1>9, <1>10, <1>11, <1>12, <1>13, <1>14, <1>15 DEF RegistryInv

(* GET_LOCK succeeds: no other session's connection holds the TD's lock.   *)
LEMMA GetLockPreserves ==
  ASSUME RegistryInv, NEW r \in Requests, NEW t \in TDs, GetLock(r, t)
  PROVE  RegistryInv'
<1>1. TypeOK /\ ConnInv /\ LockInv /\ ControlInv /\ SaversHoldTheirLock /\ AuditInv
      /\ SnapshotInv /\ FormInv /\ StagedInv /\ UndoneOnce
  BY DEF RegistryInv
<1>2. /\ pc[r] = "open" /\ pc' = [pc EXCEPT ![r] = "locked"]
      /\ FormCurrent(r)
      /\ named[t] \in {NoConn, conn[r]} /\ depth[t] < MaxDepth
      /\ named' = [named EXCEPT ![t] = conn[r]]
      /\ depth' = [depth EXCEPT ![t] = @ + 1]
      /\ want' = [want EXCEPT ![r] = t]
      /\ UNCHANGED <<rows, log, auditor, pending, pool, user, conn, view, seen, form, touched>>
  BY DEF GetLock, audit
<1>3. \A q \in Requests : /\ pc'[q] = IF q = r THEN "locked" ELSE pc[q]
                          /\ want'[q] = IF q = r THEN t ELSE want[q]
  BY <1>1, <1>2 DEF TypeOK
<1>4. \A u \in TDs : named'[u] = IF u = t THEN conn[r] ELSE named[u]
  BY <1>1, <1>2 DEF TypeOK
<1>5. conn[r] \in Conns
  BY <1>1, <1>2 DEF TypeOK, ConnInv, Working
<1>6. TypeOK'
  <2>1. depth' \in [TDs -> 0 .. MaxDepth]
    <3>1. depth[t] + 1 \in 0 .. MaxDepth
      BY <1>1, <1>2, RegistryAssumption DEF TypeOK
    <3> QED BY <3>1, <1>1, <1>2 DEF TypeOK
  <2> QED BY <2>1, <1>1, <1>2, <1>5 DEF TypeOK
<1>7. ConnInv' /\ ControlInv'
  <2>1. t # NoTD
    BY RegistryAssumption
  <2> QED BY <2>1, <1>1, <1>2, <1>3 DEF ConnInv, ControlInv, Working
<1>8. SaversHoldTheirLock'
  <2> SUFFICES ASSUME NEW q \in Requests, pc'[q] \in {"locked", "staged"}, want'[q] # NoTD
               PROVE  named'[want'[q]] = conn[q]
    BY <1>2 DEF SaversHoldTheirLock
  <2>1. CASE q = r
    BY <2>1, <1>3, <1>4
  <2>2. CASE q # r
    <3>1. named[want[q]] = conn[q] /\ conn[q] # NoConn /\ want[q] \in TDs
      BY <2>2, <1>1, <1>3 DEF SaversHoldTheirLock, ConnInv, TypeOK, Working
    <3>2. conn[q] # conn[r]
      BY <2>2, <3>1, <1>1 DEF ConnInv
    <3> QED BY <2>2, <3>1, <3>2, <1>2, <1>3, <1>4
  <2> QED BY <2>1, <2>2
<1>9. AuditInv'
  BY <1>1, <1>2, <1>3 DEF AuditInv, Working
<1>10. SnapshotInv'
  BY <1>1, <1>2, <1>3 DEF SnapshotInv
<1>11. FormInv'
  <2> SUFFICES ASSUME NEW q \in Requests, pc'[q] \in Working \cup {"form"}
               PROVE  FormOK(q)'
    BY DEF FormInv
  <2>1. FormOK(q)
    BY <1>1, <1>2, <1>3 DEF FormInv, Working
  <2>2. \A o \in Requests : \A x : Creates(o, x)' <=> Creates(o, x)
    BY <1>2 DEF Creates
  <2>3. FormCurrent(q)' <=> FormCurrent(q)
    BY <1>2 DEF FormCurrent
  <2> QED BY <2>1, <2>2, <2>3, <1>2, <1>3 DEF FormOK
<1>12. StagedInv'
  <2> SUFFICES ASSUME NEW q \in Requests, pc'[q] = "staged"
               PROVE  StagedOK(q)'
    BY DEF StagedInv
  <2>1. StagedOK(q)
    BY <1>1, <1>3 DEF StagedInv
  <2> QED BY <2>1, <1>2 DEF StagedOK, KeepsGroupsClean, Clean, Active, Creates
<1>13. UndoneOnce'
  BY <1>1, <1>2 DEF UndoneOnce
<1>14. LockInv'
  <2>1. conn[r] # NoConn /\ depth[t] + 1 # 0
    BY <1>1, <1>5, RegistryAssumption DEF TypeOK
  <2>2. \A u \in TDs : depth'[u] = IF u = t THEN depth[t] + 1 ELSE depth[u]
    BY <1>1, <1>2 DEF TypeOK
  <2> QED BY <2>1, <2>2, <1>1, <1>4 DEF LockInv
<1> QED BY <1>6, <1>7, <1>8, <1>9, <1>10, <1>11, <1>12, <1>13, <1>14 DEF RegistryInv

(* What the end of a session's transaction leaves of connections, forms    *)
(* and locks.                                                              *)
LEMMA SessionEnds ==
  ASSUME TypeOK, ConnInv, ControlInv, SaversHoldTheirLock,
         NEW r \in Requests, pc[r] \in Working,
         pool' = Append(pool, conn[r]), Forget(r),
         pc' = [pc EXCEPT ![r] = IF want[r] = NoTD THEN "idle" ELSE "ended"],
         UNCHANGED <<named, depth, user, want>>
  PROVE  /\ ConnInv' /\ ControlInv' /\ SaversHoldTheirLock'
         /\ pool' \in Seq(Conns)
         /\ conn' \in [Requests -> Conns \cup {NoConn}]
         /\ view' \in [Requests -> [Props -> Row \cup {NoRow}]]
         /\ seen' \in [Requests -> Nat]
         /\ form' \in [Requests -> [prop : Props, ver : Nat, at : Nat] \cup {NoForm}]
         /\ touched' \in [Requests -> SUBSET Props]
         /\ pc' \in [Requests -> {"idle", "form", "open", "locked", "staged", "ended"}]
         /\ pc'[r] \in {"idle", "ended"} /\ form'[r] = NoForm
         /\ \A q \in Requests \ {r} :
               /\ pc'[q] = pc[q] /\ conn'[q] = conn[q] /\ view'[q] = view[q]
               /\ seen'[q] = seen[q] /\ form'[q] = form[q] /\ touched'[q] = touched[q]
<1>1. /\ conn' = [conn EXCEPT ![r] = NoConn]
      /\ view' = [view EXCEPT ![r] = NoRows]
      /\ seen' = [seen EXCEPT ![r] = 0]
      /\ form' = [form EXCEPT ![r] = NoForm]
      /\ touched' = [touched EXCEPT ![r] = {}]
  BY DEF Forget
<1>2. \A q \in Requests \ {r} :
        /\ pc'[q] = pc[q] /\ conn'[q] = conn[q] /\ view'[q] = view[q]
        /\ seen'[q] = seen[q] /\ form'[q] = form[q] /\ touched'[q] = touched[q]
  BY <1>1 DEF TypeOK
<1>3. /\ pc'[r] = IF want[r] = NoTD THEN "idle" ELSE "ended"
      /\ conn'[r] = NoConn /\ form'[r] = NoForm
  BY <1>1 DEF TypeOK
<1>4. conn[r] \in Conns /\ conn[r] # NoConn /\ pool \in Seq(Conns)
  BY DEF ConnInv, TypeOK
<1>5. /\ Distinct(pool) /\ ~Holds(pool, conn[r])
      /\ \A q \in Requests :
            /\ conn[q] # NoConn <=> pc[q] \in Working
            /\ ~Holds(pool, conn[q])
            /\ \A o \in Requests : conn[q] # NoConn /\ conn[o] = conn[q] => o = q
  BY ConnInvIff
<1>6. /\ pool' \in Seq(Conns) /\ Distinct(pool')
      /\ \A d : Holds(pool', d) <=> Holds(pool, d) \/ d = conn[r]
  BY <1>4, <1>5, PoolReturned
<1>7. ConnInv'
  <2>1. \A q \in Requests : ~Holds(pool', conn'[q])
    <3>1. ~Holds(pool', NoConn)
      BY <1>6, RegistryAssumption DEF Holds
    <3>2. ASSUME NEW q \in Requests \ {r} PROVE ~Holds(pool', conn[q])
      BY <1>4, <1>5, <1>6
    <3> QED BY <3>1, <3>2, <1>2, <1>3
  <2>2. \A q \in Requests : conn'[q] # NoConn <=> pc'[q] \in Working
    BY <1>2, <1>3, <1>5 DEF Working
  <2>3. \A q, o \in Requests : conn'[q] # NoConn /\ conn'[o] = conn'[q] => o = q
    BY <1>2, <1>3, <1>5
  <2> QED BY <2>1, <2>2, <2>3, <1>6 DEF ConnInv, Distinct, Holds, Working
<1>8. ControlInv'
  BY <1>2, <1>3 DEF ControlInv, Working
<1>9. SaversHoldTheirLock'
  BY <1>2, <1>3 DEF SaversHoldTheirLock
<1>10. /\ conn' \in [Requests -> Conns \cup {NoConn}]
       /\ view' \in [Requests -> [Props -> Row \cup {NoRow}]]
       /\ seen' \in [Requests -> Nat]
       /\ form' \in [Requests -> [prop : Props, ver : Nat, at : Nat] \cup {NoForm}]
       /\ touched' \in [Requests -> SUBSET Props]
       /\ pc' \in [Requests -> {"idle", "form", "open", "locked", "staged", "ended"}]
  BY <1>1 DEF TypeOK, NoRows
<1> QED BY <1>2, <1>3, <1>6, <1>7, <1>8, <1>9, <1>10

(* A transaction that ends without a commit changes no row and no event.   *)
LEMMA UndonePreserves ==
  ASSUME RegistryInv, NEW r \in Requests, pc[r] \in Working,
         pool' = Append(pool, conn[r]), Forget(r),
         pc' = [pc EXCEPT ![r] = IF want[r] = NoTD THEN "idle" ELSE "ended"],
         auditor' = (IF auditor = r THEN NoReq ELSE auditor),
         pending' = (IF auditor = r THEN NoEvent ELSE pending),
         UNCHANGED <<rows, log, named, depth, user, want>>
  PROVE  RegistryInv'
<1>1. TypeOK /\ ConnInv /\ LockInv /\ ControlInv /\ SaversHoldTheirLock /\ AuditInv
      /\ SnapshotInv /\ FormInv /\ StagedInv /\ UndoneOnce
  BY DEF RegistryInv
<1>2. /\ ConnInv' /\ ControlInv' /\ SaversHoldTheirLock'
      /\ pool' \in Seq(Conns)
      /\ conn' \in [Requests -> Conns \cup {NoConn}]
      /\ view' \in [Requests -> [Props -> Row \cup {NoRow}]]
      /\ seen' \in [Requests -> Nat]
      /\ form' \in [Requests -> [prop : Props, ver : Nat, at : Nat] \cup {NoForm}]
      /\ touched' \in [Requests -> SUBSET Props]
      /\ pc' \in [Requests -> {"idle", "form", "open", "locked", "staged", "ended"}]
      /\ pc'[r] \in {"idle", "ended"} /\ form'[r] = NoForm
  BY <1>1, SessionEnds
<1>3. \A q \in Requests \ {r} :
        /\ pc'[q] = pc[q] /\ conn'[q] = conn[q] /\ view'[q] = view[q]
        /\ seen'[q] = seen[q] /\ form'[q] = form[q] /\ touched'[q] = touched[q]
  BY <1>1, SessionEnds
<1>4. TypeOK'
  BY <1>1, <1>2 DEF TypeOK
<1>5. AuditInv'
  BY ZenonT(30), <1>1, <1>2, <1>3, RegistryAssumption DEF AuditInv, Working
<1>6. SnapshotInv'
  <2> SUFFICES ASSUME NEW q \in Requests, pc'[q] \in {"open", "locked"}
               PROVE  /\ seen'[q] = Len(log) => view'[q] = rows
                      /\ \A e \in 1 .. seen'[q] : view'[q][log[e].prop] # NoRow
    BY DEF SnapshotInv
  <2>1. q # r
    BY <1>2
  <2>2. pc'[q] = pc[q] /\ view'[q] = view[q] /\ seen'[q] = seen[q]
    BY <2>1, <1>3
  <2>3. /\ seen[q] = Len(log) => view[q] = rows
        /\ \A e \in 1 .. seen[q] : view[q][log[e].prop] # NoRow
    BY <2>2, <1>1 DEF SnapshotInv
  <2> QED BY <2>2, <2>3
<1>7. \A o \in Requests : \A x : Creates(o, x)' => Creates(o, x)
  BY <1>2, <1>3 DEF Creates
<1>8. FormInv'
  <2> SUFFICES ASSUME NEW q \in Requests, pc'[q] \in Working \cup {"form"}
               PROVE  FormOK(q)'
    BY DEF FormInv
  <2>1. q # r /\ FormOK(q)
    BY <1>1, <1>2, <1>3 DEF FormInv, Working
  <2> QED BY <2>1, <1>3, <1>7 DEF FormOK, FormCurrent
<1>9. StagedInv'
  <2> SUFFICES ASSUME NEW q \in Requests, pc'[q] = "staged"
               PROVE  StagedOK(q)'
    BY DEF StagedInv
  <2>1. q # r /\ StagedOK(q) /\ pending' = pending
    BY <1>1, <1>2, <1>3 DEF StagedInv, AuditInv
  <2> QED BY <2>1, <1>3 DEF StagedOK, KeepsGroupsClean, Clean, Active, Creates
<1>10. UndoneOnce' /\ LockInv'
  BY <1>1 DEF UndoneOnce, LockInv
<1> QED BY <1>2, <1>4, <1>5, <1>6, <1>8, <1>9, <1>10 DEF RegistryInv

LEMMA RollbackPreserves ==
  ASSUME RegistryInv, NEW r \in Requests, Rollback(r)
  PROVE  RegistryInv'
BY UndonePreserves DEF Rollback, GiveBack, Working

LEMMA GetLockTimesOutPreserves ==
  ASSUME RegistryInv, NEW r \in Requests, NEW t \in TDs, GetLockTimesOut(r, t)
  PROVE  RegistryInv'
<1>1. pc[r] = "open" /\ want[r] = NoTD /\ auditor # r
  BY DEF GetLockTimesOut, RegistryInv, ControlInv, AuditInv
<1> QED BY <1>1, UndonePreserves DEF GetLockTimesOut, audit, Working

(* Nothing but the pool's order and a lock that a pooled connection held   *)
(* changes: a session between GET_LOCK and its commit keeps its own.       *)
LEMMA ReleaseLockPreserves ==
  ASSUME RegistryInv, NEW r \in Requests, ReleaseLock(r)
  PROVE  RegistryInv'
<1>1. TypeOK /\ ConnInv /\ LockInv /\ ControlInv /\ SaversHoldTheirLock /\ AuditInv
      /\ SnapshotInv /\ FormInv /\ StagedInv /\ UndoneOnce
  BY DEF RegistryInv
<1> DEFINE t == want[r]
           owns == named[t] = Head(pool)
<1>2. /\ pc[r] = "ended" /\ pc' = [pc EXCEPT ![r] = "idle"]
      /\ pool # <<>> /\ pool' = Append(Tail(pool), Head(pool))
      /\ depth' = [depth EXCEPT ![t] = IF owns THEN @ - 1 ELSE @]
      /\ named' = [named EXCEPT ![t] = IF owns /\ depth[t] = 1 THEN NoConn ELSE @]
      /\ want' = [want EXCEPT ![r] = NoTD]
      /\ UNCHANGED <<rows, log, auditor, pending, user, conn, view, seen, form, touched>>
  BY DEF ReleaseLock, audit
<1>3. \A q \in Requests : /\ pc'[q] = IF q = r THEN "idle" ELSE pc[q]
                          /\ want'[q] = IF q = r THEN NoTD ELSE want[q]
  BY <1>1, <1>2 DEF TypeOK
<1>4. pool \in Seq(Conns) /\ t \in TDs
  BY <1>1, <1>2 DEF TypeOK, ControlInv
<1>5. /\ pool' \in Seq(Conns) /\ Distinct(pool') /\ Head(pool) \in Conns
      /\ Holds(pool, Head(pool))
      /\ \A c : Holds(pool', c) <=> Holds(pool, c)
  BY <1>1, <1>2, <1>4, PoolRotated, PoolTaken, ConnInvIff
<1>6. \A q \in Requests :
        /\ conn[q] # NoConn <=> pc[q] \in Working
        /\ ~Holds(pool, conn[q])
        /\ \A o \in Requests : conn[q] # NoConn /\ conn[o] = conn[q] => o = q
  BY <1>1, ConnInvIff
<1>7. owns => depth[t] # 0
  BY <1>1, <1>4, <1>5, RegistryAssumption DEF LockInv
<1>8. depth[t] \in Nat /\ depth[t] \in 0 .. MaxDepth
  BY <1>1, <1>4, RegistryAssumption DEF TypeOK
<1>9. \A u \in TDs :
        /\ named'[u] = IF u = t /\ owns /\ depth[t] = 1 THEN NoConn ELSE named[u]
        /\ depth'[u] = IF u = t /\ owns THEN depth[t] - 1 ELSE depth[u]
  BY <1>1, <1>2 DEF TypeOK
<1> HIDE DEF t, owns
<1>10. TypeOK'
  <2>1. named' \in [TDs -> Conns \cup {NoConn}]
    BY <1>1, <1>2, <1>4 DEF TypeOK
  <2>2. depth' \in [TDs -> 0 .. MaxDepth]
    <3>1. (IF owns THEN depth[t] - 1 ELSE depth[t]) \in 0 .. MaxDepth
      BY <1>7, <1>8, RegistryAssumption
    <3> QED BY <3>1, <1>1, <1>2, <1>4 DEF TypeOK
  <2> QED BY <2>1, <2>2, <1>1, <1>2, <1>5 DEF TypeOK
<1>11. ConnInv' /\ ControlInv'
  <2>1. \A q \in Requests : conn'[q] # NoConn <=> pc'[q] \in Working
    BY <1>2, <1>3, <1>6 DEF Working
  <2>2. ControlInv'
    BY <1>1, <1>2, <1>3 DEF ControlInv, Working
  <2> QED BY <2>1, <2>2, <1>2, <1>5, <1>6 DEF ConnInv, Distinct, Holds, Working
<1>12. LockInv'
  BY <1>1, <1>7, <1>8, <1>9 DEF LockInv
<1>13. SaversHoldTheirLock'
  <2> SUFFICES ASSUME NEW q \in Requests, pc'[q] \in {"locked", "staged"}, want'[q] # NoTD
               PROVE  named'[want'[q]] = conn[q]
    BY <1>2 DEF SaversHoldTheirLock
  <2>1. q # r /\ want'[q] = want[q] /\ pc[q] \in {"locked", "staged"} /\ want[q] \in TDs
    BY <1>1, <1>3 DEF TypeOK
  <2>2. named[want[q]] = conn[q] /\ conn[q] # Head(pool)
    BY <2>1, <1>1, <1>3, <1>5, <1>6 DEF SaversHoldTheirLock
  <2>3. want[q] = t => ~owns
    BY <2>2 DEF owns
  <2> QED BY <2>1, <2>2, <2>3, <1>9
<1>14. AuditInv' /\ SnapshotInv' /\ UndoneOnce'
  BY <1>1, <1>2, <1>3 DEF AuditInv, SnapshotInv, UndoneOnce, Working
<1>15. FormInv'
  <2> SUFFICES ASSUME NEW q \in Requests, pc'[q] \in Working \cup {"form"}
               PROVE  FormOK(q)'
    BY DEF FormInv
  <2>1. q # r /\ FormOK(q)
    BY <1>1, <1>3 DEF FormInv, Working
  <2> QED BY <2>1, <1>2, <1>3 DEF FormOK, FormCurrent, Creates
<1>16. StagedInv'
  <2> SUFFICES ASSUME NEW q \in Requests, pc'[q] = "staged"
               PROVE  StagedOK(q)'
    BY DEF StagedInv
  <2>1. q # r /\ StagedOK(q)
    BY <1>1, <1>3 DEF StagedInv
  <2> QED BY <2>1, <1>2 DEF StagedOK, KeepsGroupsClean, Clean, Active, Creates
<1> QED BY <1>10, <1>11, <1>12, <1>13, <1>14, <1>15, <1>16 DEF RegistryInv

(* Replacing an idle connection drops locks of no session that saves.      *)
LEMMA RecyclePreserves ==
  ASSUME RegistryInv, Recycle
  PROVE  RegistryInv'
<1>1. TypeOK /\ ConnInv /\ LockInv /\ ControlInv /\ SaversHoldTheirLock /\ AuditInv
      /\ SnapshotInv /\ FormInv /\ StagedInv /\ UndoneOnce
  BY DEF RegistryInv
<1>2. /\ pool # <<>>
      /\ named' = [t \in TDs |-> IF named[t] = Head(pool) THEN NoConn ELSE named[t]]
      /\ depth' = [t \in TDs |-> IF named[t] = Head(pool) THEN 0 ELSE depth[t]]
      /\ UNCHANGED <<rows, log, auditor, pending, pool, pc,
                     user, conn, view, seen, form, want, touched>>
  BY DEF Recycle, audit, session
<1>3. pool \in Seq(Conns)
  BY <1>1 DEF TypeOK
<1>4. Holds(pool, Head(pool)) /\ \A q \in Requests : ~Holds(pool, conn[q])
  BY <1>1, <1>2, <1>3, PoolTaken, ConnInvIff
<1>5. TypeOK'
  BY <1>1, <1>2, RegistryAssumption DEF TypeOK
<1>6. LockInv'
  BY <1>1, <1>2 DEF LockInv
<1>7. SaversHoldTheirLock'
  <2> SUFFICES ASSUME NEW q \in Requests, pc[q] \in {"locked", "staged"}, want[q] # NoTD
               PROVE  named'[want[q]] = conn[q]
    BY <1>2 DEF SaversHoldTheirLock
  <2>1. named[want[q]] = conn[q] /\ conn[q] # Head(pool) /\ want[q] \in TDs
    BY <1>1, <1>4 DEF SaversHoldTheirLock, TypeOK
  <2> QED BY <2>1, <1>2
<1>8. ConnInv' /\ ControlInv'
  BY <1>1, <1>2 DEF ConnInv, ControlInv, Working
<1>9. AuditInv' /\ SnapshotInv' /\ UndoneOnce'
  BY <1>1, <1>2 DEF AuditInv, SnapshotInv, UndoneOnce, Working
<1>10. FormInv' /\ StagedInv'
  BY <1>1, <1>2 DEF FormInv, StagedInv, FormOK, StagedOK, FormCurrent, Creates,
                   KeepsGroupsClean, Clean, Active, Working
<1> QED BY <1>5, <1>6, <1>7, <1>8, <1>9, <1>10 DEF RegistryInv

(* Appending an event: for every operation, given what its new rows w do   *)
(* to the session's view.                                                  *)
LEMMA StagePreserves ==
  ASSUME RegistryInv, NEW r \in Requests, pc[r] \in {"open", "locked"},
         NEW w \in [Props -> Row \cup {NoRow}], NEW p \in Props, NEW e \in Nat,
         NEW k \in {"create", "update", "authorize", "delete", "restore", "undo"},
         Stage(r, w, k, p, e),
         \A q \in Props : view[r][q] # NoRow => w[q] # NoRow /\ view[r][q].ver <= w[q].ver,
         \A q \in Props : view[r][q] = NoRow /\ w[q] # NoRow => Creates(r, q),
         w[p] # NoRow,
         k \in SaveKinds /\ view[r][p] # NoRow => view[r][p].ver < w[p].ver,
         e # 0 => \A i \in 1 .. seen[r] : log[i].undoes # e,
         KeepsGroupsClean(view[r], w)
  PROVE  RegistryInv'
<1>1. TypeOK /\ ConnInv /\ LockInv /\ ControlInv /\ SaversHoldTheirLock /\ AuditInv
      /\ SnapshotInv /\ FormInv /\ StagedInv /\ UndoneOnce
  BY DEF RegistryInv
<1> DEFINE ev == [user |-> user[r], prop |-> p, kind |-> k, undoes |-> e,
                  live |-> view[r][p] # NoRow /\ view[r][p].live]
<1>2. /\ auditor = NoReq /\ seen[r] = Len(log) /\ auditor' = r
      /\ pending' = ev
      /\ view' = [view EXCEPT ![r] = w]
      /\ touched' = [touched EXCEPT ![r] = {q \in Props : w[q] # view[r][q]}]
      /\ pc' = [pc EXCEPT ![r] = "staged"]
      /\ UNCHANGED <<rows, log, named, depth, pool, user, conn, seen, form, want>>
  BY DEF Stage, Audited, lockVars
<1>3. \A q \in Requests :
        /\ pc'[q] = IF q = r THEN "staged" ELSE pc[q]
        /\ view'[q] = IF q = r THEN w ELSE view[q]
        /\ touched'[q] = IF q = r THEN {x \in Props : w[x] # view[r][x]} ELSE touched[q]
  BY <1>1, <1>2 DEF TypeOK
<1>4. ev \in Event /\ ev.prop = p /\ ev.kind = k /\ ev.undoes = e
  <2>1. user[r] \in Users /\ (view[r][p] # NoRow /\ view[r][p].live) \in BOOLEAN
    BY <1>1 DEF TypeOK
  <2> QED BY <2>1 DEF Event
<1> HIDE DEF ev
<1>5. view[r] = rows
  BY <1>1, <1>2 DEF SnapshotInv
<1>6. TypeOK'
  <2>1. touched' \in [Requests -> SUBSET Props]
    BY <1>1, <1>2 DEF TypeOK
  <2>2. view' \in [Requests -> [Props -> Row \cup {NoRow}]]
    BY <1>1, <1>2 DEF TypeOK
  <2> QED BY <2>1, <2>2, <1>1, <1>2, <1>4 DEF TypeOK
<1>7. ConnInv' /\ LockInv' /\ UndoneOnce'
  BY <1>1, <1>2, <1>3 DEF ConnInv, LockInv, UndoneOnce, Working
<1>8. ControlInv'
  BY <1>1, <1>2, <1>3 DEF ControlInv, Working
<1>9. SaversHoldTheirLock'
  <2> SUFFICES ASSUME NEW q \in Requests, pc'[q] \in {"locked", "staged"}, want[q] # NoTD
               PROVE  named[want[q]] = conn[q]
    BY <1>2 DEF SaversHoldTheirLock
  <2>1. pc[q] \in {"locked", "staged"}
    BY <1>1, <1>3 DEF ControlInv
  <2> QED BY <2>1, <1>1 DEF SaversHoldTheirLock
<1>10. \A q \in Requests : pc[q] # "staged"
  BY <1>1, <1>2, RegistryAssumption DEF AuditInv
<1>11. AuditInv'
  BY ZenonT(60), <1>1, <1>2, <1>3, <1>4, <1>10 DEF AuditInv, Working
<1>12. SnapshotInv'
  <2> SUFFICES ASSUME NEW q \in Requests, pc'[q] \in {"open", "locked"}
               PROVE  /\ seen[q] = Len(log) => view'[q] = rows
                      /\ \A i \in 1 .. seen[q] : view'[q][log[i].prop] # NoRow
    BY <1>2 DEF SnapshotInv
  <2>1. q # r
    BY <1>3
  <2> QED BY ZenonT(30), <2>1, <1>1, <1>3 DEF SnapshotInv
<1>13. FormInv'
  <2> SUFFICES ASSUME NEW q \in Requests, pc'[q] \in Working \cup {"form"}
               PROVE  FormOK(q)'
    BY DEF FormInv
  <2>1. FormOK(q)
    BY <1>1, <1>3 DEF FormInv, Working
  <2>2. \A o \in Requests : \A x : Creates(o, x)' <=> Creates(o, x)
    BY <1>2 DEF Creates
  <2>3. CASE q # r
    <3>1. FormCurrent(q)' <=> FormCurrent(q)
      BY <2>3, <1>2, <1>3 DEF FormCurrent
    <3> QED BY <2>1, <2>2, <2>3, <3>1, <1>2, <1>3 DEF FormOK
  <2>4. CASE q = r
    <3>1. want[r] # NoTD => pc[r] = "locked"
      BY <1>1 DEF ControlInv
    <3>2. form[r].ver # 0 /\ want[r] # NoTD =>
             rows[form[r].prop].ver = form[r].ver
      <4> SUFFICES ASSUME form[r].ver # 0, want[r] # NoTD
                   PROVE  rows[form[r].prop].ver = form[r].ver
        OBVIOUS
      <4>1. /\ rows[form[r].prop].ver <= form[r].ver
            /\ form[r].ver <= rows[form[r].prop].ver
            /\ rows[form[r].prop] # NoRow
        BY <2>1, <2>4, <3>1, <1>5 DEF FormOK, FormCurrent
      <4>2. form[r] \in [prop : Props, ver : Nat, at : Nat]
        BY <1>1 DEF ControlInv, TypeOK, Working
      <4>3. rows[form[r].prop].ver \in Nat /\ form[r].ver \in Nat
        BY <4>1, <4>2, <1>1, RowFacts DEF TypeOK
      <4> QED BY ONLY <4>1, <4>3
    <3>3. /\ pc'[r] = "staged" /\ form' = form /\ want' = want
          /\ rows' = rows /\ log' = log
      BY <1>2, <1>3
    <3>4. FormOK(r)'
      BY ONLY <2>1, <2>2, <2>4, <3>2, <3>3 DEF FormOK
    <3> QED BY <2>4, <3>4
  <2> QED BY <2>3, <2>4
<1>14. StagedInv'
  <2> SUFFICES StagedOK(r)'
    BY <1>3, <1>10 DEF StagedInv
  <2>1. \A x \in Props \ touched'[r] : w[x] = rows[x]
    BY <1>3, <1>5
  <2>2. \A x \in Props : Creates(r, x)' <=> Creates(r, x)
    BY <1>2 DEF Creates
  <2>3. e # 0 => \A i \in DOMAIN log : log[i].undoes # e
    BY <1>1, <1>2 DEF TypeOK
  <2>4. KeepsGroupsClean(rows, w)
    BY <1>5
  <2>5. /\ rows' = rows /\ log' = log /\ view'[r] = w /\ pending' = ev
    BY <1>2, <1>3
  <2>6. KeepsGroupsClean(rows, view[r])'
    BY ONLY <2>4, <2>5 DEF KeepsGroupsClean, Clean, Active
  <2>7. \A x \in Props :
          /\ rows[x] # NoRow => w[x] # NoRow /\ rows[x].ver <= w[x].ver
          /\ rows[x] = NoRow /\ w[x] # NoRow => Creates(r, x)'
    BY <2>2, <1>5
  <2>8. k \in SaveKinds /\ rows[p] # NoRow => rows[p].ver < w[p].ver
    BY <1>5
  <2>9. w[p] # NoRow
    OBVIOUS
  <2> QED BY ONLY <2>1, <2>3, <2>5, <2>6, <2>7, <2>8, <2>9, <1>4 DEF StagedOK, SaveKinds
<1> QED BY <1>6, <1>7, <1>8, <1>9, <1>11, <1>12, <1>13, <1>14 DEF RegistryInv

(* A save: at most the row of its form is new.                             *)
LEMMA SavePreserves ==
  ASSUME RegistryInv, NEW r \in Requests, NEW approved \in BOOLEAN, Save(r, approved)
  PROVE  RegistryInv'
<1> DEFINE v == view[r]
           p == form[r].prop
           w == Saved(v, p, want[r])
<1>1. /\ pc[r] = "locked"
      /\ Stage(r, w, SaveKind(v, p, want[r]), p, 0)
  BY DEF Save
<1>2. /\ form[r] # NoForm /\ form[r] \in [prop : Props, ver : Nat, at : Nat]
      /\ want[r] \in TDs /\ v \in [Props -> Row \cup {NoRow}]
  BY <1>1 DEF RegistryInv, TypeOK, ControlInv, Working
<1>3. p \in Props
  BY <1>2
<1>4. v[p] = NoRow => Creates(r, p)
  <2>1. FormOK(r)
    BY <1>1 DEF RegistryInv, FormInv, Working
  <2> QED BY <2>1, <1>1, <1>2 DEF FormOK, Creates
<1>5. SaveKind(v, p, want[r]) \in {"create", "update", "authorize", "delete", "restore", "undo"}
  BY DEF SaveKind
<1> HIDE DEF v, p
<1>6. /\ w \in [Props -> Row \cup {NoRow}]
      /\ w[p] \in Row
      /\ w[p].ver = IF v[p] = NoRow THEN 1 ELSE v[p].ver + 1
      /\ \A q \in Props \ {p} :
            /\ w[q] = NoRow <=> v[q] = NoRow
            /\ v[q] # NoRow => w[q] \in Row /\ w[q].ver = v[q].ver
  BY <1>2, <1>3, SavedFacts
<1>7. KeepsGroupsClean(v, w)
  BY <1>2, <1>3, SaveKeepsGroupsClean
<1> HIDE DEF w
<1>8. w[p] # NoRow
  BY <1>6, RowFacts
<1>9. \A q \in Props : v[q] # NoRow => v[q].ver \in Nat
  BY <1>2, RowFacts
<1>10. /\ \A q \in Props : v[q] # NoRow => w[q] # NoRow /\ v[q].ver <= w[q].ver
       /\ \A q \in Props : v[q] = NoRow /\ w[q] # NoRow => Creates(r, q)
       /\ v[p] # NoRow => v[p].ver < w[p].ver
  BY <1>3, <1>4, <1>6, <1>8, <1>9
<1>11. /\ pc[r] \in {"open", "locked"} /\ 0 \in Nat
       /\ Stage(r, w, SaveKind(v, p, want[r]), p, 0)
  BY <1>1 DEF v, p, w
<1> QED
  BY ONLY RegistryInv, r \in Requests, <1>3, <1>5, <1>6, <1>7, <1>8, <1>10, <1>11,
          StagePreserves DEF v

(* Setting the liveness of a property in the session's view.               *)
LEMMA LivePreserves ==
  ASSUME RegistryInv, NEW r \in Requests, pc[r] = "open",
         NEW p \in Props, view[r][p] # NoRow, NEW b \in BOOLEAN, NEW e \in Nat,
         NEW k \in {"delete", "restore", "undo"},
         Stage(r, [view[r] EXCEPT ![p].live = b], k, p, e),
         e # 0 => \A i \in 1 .. seen[r] : log[i].undoes # e
  PROVE  RegistryInv'
<1> DEFINE w == [view[r] EXCEPT ![p].live = b]
<1>1. view[r] \in [Props -> Row \cup {NoRow}]
  BY DEF RegistryInv, TypeOK
<1>2. /\ w \in [Props -> Row \cup {NoRow}]
      /\ \A q \in Props : w[q] = NoRow <=> view[r][q] = NoRow
      /\ \A q \in Props : view[r][q] # NoRow => w[q].ver = view[r][q].ver
      /\ KeepsGroupsClean(view[r], w)
  BY <1>1, LiveKeepsGroupsClean
<1>3. \A q \in Props : view[r][q] # NoRow => view[r][q].ver \in Nat
  BY <1>1, RowFacts
<1>4. Stage(r, w, k, p, e)
  OBVIOUS
<1> HIDE DEF w
<1>5. k \notin SaveKinds
  BY DEF SaveKinds
<1>6. /\ \A q \in Props : view[r][q] # NoRow => w[q] # NoRow /\ view[r][q].ver <= w[q].ver
      /\ \A q \in Props : view[r][q] = NoRow /\ w[q] # NoRow => Creates(r, q)
  BY <1>2, <1>3
<1> QED BY <1>2, <1>4, <1>5, <1>6, StagePreserves

LEMMA SoftDeletePreserves ==
  ASSUME RegistryInv, NEW r \in Requests, SoftDelete(r) \/ Restore(r)
  PROVE  RegistryInv'
<1>1. pc[r] = "open"
  BY DEF SoftDelete, Restore
<1>2. form[r] \in [prop : Props, ver : Nat, at : Nat]
  BY <1>1 DEF RegistryInv, TypeOK, ControlInv, Working
<1>3. form[r].prop \in Props
  BY <1>2
<1>4. CASE SoftDelete(r)
  BY <1>1, <1>3, <1>4, LivePreserves DEF SoftDelete
<1>5. CASE Restore(r)
  BY <1>1, <1>3, <1>5, LivePreserves DEF Restore
<1> QED BY <1>4, <1>5

(* An undo compensates an event of its snapshot, about a property of it,   *)
(* that none compensates yet.                                              *)
LEMMA UndoPreserves ==
  ASSUME RegistryInv, NEW r \in Requests, Undo(r)
  PROVE  RegistryInv'
<1>1. PICK e \in Reversible(r) :
        LET p == log[e].prop
        IN  /\ pc[r] = "open"
            /\ Stage(r, IF log[e].kind = "delete"
                        THEN [view[r] EXCEPT ![p].live = log[e].live] ELSE view[r],
                     "undo", p, e)
  BY DEF Undo
<1> DEFINE p == log[e].prop
<1>2. e \in 1 .. seen[r] /\ \A i \in 1 .. seen[r] : log[i].undoes # e
  BY DEF Reversible
<1>3. /\ TypeOK /\ seen[r] <= Len(log)
      /\ \A i \in 1 .. seen[r] : view[r][log[i].prop] # NoRow
  BY <1>1 DEF RegistryInv, AuditInv, SnapshotInv, Working
<1>4. e \in DOMAIN log /\ e \in Nat /\ log[e] \in Event
  BY <1>2, <1>3 DEF TypeOK
<1>5. /\ view[r][p] # NoRow /\ p \in Props /\ log[e].live \in BOOLEAN
      /\ view[r] \in [Props -> Row \cup {NoRow}]
  BY <1>2, <1>3, <1>4 DEF Event, TypeOK
<1>6. CASE log[e].kind = "delete"
  BY <1>1, <1>2, <1>4, <1>5, <1>6, LivePreserves
<1>7. CASE log[e].kind # "delete"
  <2>1. KeepsGroupsClean(view[r], view[r])
    BY DEF KeepsGroupsClean
  <2>2. \A q \in Props : view[r][q] # NoRow => view[r][q].ver <= view[r][q].ver
    BY <1>5, RowFacts
  <2>3. Stage(r, view[r], "undo", p, e) /\ pc[r] = "open"
    BY <1>1, <1>7
  <2>4. "undo" \notin SaveKinds
    BY DEF SaveKinds
  <2> HIDE DEF p
  <2> QED BY <1>2, <1>4, <1>5, <2>1, <2>2, <2>3, <2>4, StagePreserves
<1> QED BY <1>6, <1>7

(* A commit makes the session's view the stored rows.                      *)
LEMMA CommitFacts ==
  ASSUME RegistryInv, NEW r \in Requests, Commit(r)
  PROVE  rows' = view[r] /\ StagedOK(r) /\ log' = Append(log, pending) /\ auditor = r
<1>1. TypeOK /\ StagedOK(r) /\ auditor = r
  BY DEF Commit, RegistryInv, StagedInv, AuditInv
<1>2. \A p \in Props : rows'[p] = view[r][p]
  BY <1>1 DEF Commit, StagedOK
<1>3. rows' = [p \in Props |-> rows'[p]] /\ view[r] = [p \in Props |-> view[r][p]]
  BY <1>1 DEF Commit, TypeOK
<1> QED BY <1>1, <1>2, <1>3 DEF Commit

LEMMA CommitPreserves ==
  ASSUME RegistryInv, NEW r \in Requests, Commit(r)
  PROVE  RegistryInv'
<1>1. TypeOK /\ ConnInv /\ LockInv /\ ControlInv /\ SaversHoldTheirLock /\ AuditInv
      /\ SnapshotInv /\ FormInv /\ StagedInv /\ UndoneOnce
  BY DEF RegistryInv
<1>2. /\ pc[r] = "staged" /\ Forget(r)
      /\ pool' = Append(pool, conn[r])
      /\ pc' = [pc EXCEPT ![r] = IF want[r] = NoTD THEN "idle" ELSE "ended"]
      /\ UNCHANGED <<named, depth, user, want>>
  BY DEF Commit, GiveBack
<1>3. rows' = view[r] /\ StagedOK(r) /\ log' = Append(log, pending) /\ auditor = r
  BY CommitFacts
<1>4. auditor' = NoReq /\ pending' = NoEvent
  BY <1>3 DEF Commit, GiveBack
<1>5. /\ ConnInv' /\ ControlInv' /\ SaversHoldTheirLock'
      /\ pool' \in Seq(Conns)
      /\ conn' \in [Requests -> Conns \cup {NoConn}]
      /\ view' \in [Requests -> [Props -> Row \cup {NoRow}]]
      /\ seen' \in [Requests -> Nat]
      /\ form' \in [Requests -> [prop : Props, ver : Nat, at : Nat] \cup {NoForm}]
      /\ touched' \in [Requests -> SUBSET Props]
      /\ pc' \in [Requests -> {"idle", "form", "open", "locked", "staged", "ended"}]
      /\ pc'[r] \in {"idle", "ended"} /\ form'[r] = NoForm
  BY <1>1, <1>2, SessionEnds DEF Working
<1>6. \A q \in Requests \ {r} :
        /\ pc'[q] = pc[q] /\ conn'[q] = conn[q] /\ view'[q] = view[q]
        /\ seen'[q] = seen[q] /\ form'[q] = form[q] /\ touched'[q] = touched[q]
  BY <1>1, <1>2, SessionEnds DEF Working
<1>7. pending \in Event /\ log \in Seq(Event) /\ seen[r] = Len(log)
  BY <1>1, <1>2 DEF TypeOK, AuditInv
<1>8. /\ log' \in Seq(Event) /\ Len(log') = Len(log) + 1 /\ Len(log) \in Nat
      /\ DOMAIN log' = 1 .. Len(log) + 1 /\ DOMAIN log = 1 .. Len(log)
      /\ \A i \in 1 .. Len(log) : log'[i] = log[i]
      /\ log'[Len(log) + 1] = pending
  BY <1>3, <1>7, AppendFacts
<1>9. \A i \in 1 .. Len(log) + 1 : i \in 1 .. Len(log) \/ i = Len(log) + 1
  BY <1>8
<1>10. TypeOK'
  <2>1. rows' \in [Props -> Row \cup {NoRow}]
    BY <1>1, <1>3 DEF TypeOK
  <2> QED BY <2>1, <1>1, <1>2, <1>4, <1>5, <1>8 DEF TypeOK
<1>11. \A q \in Requests \ {r} : pc[q] # "staged"
  BY <1>1, <1>3 DEF AuditInv
<1>12. \A p \in Props :
         /\ rows[p] # NoRow => rows'[p] # NoRow /\ rows[p].ver <= rows'[p].ver
         /\ rows[p] = NoRow /\ rows'[p] # NoRow => Creates(r, p)
  BY <1>3 DEF StagedOK
<1>13. AuditInv'
  <2>1. \A i \in DOMAIN log' : rows'[log'[i].prop] # NoRow
    <3>1. \A i \in 1 .. Len(log) : log[i].prop \in Props /\ rows[log[i].prop] # NoRow
      BY <1>1, <1>8, EventIsNotNone DEF AuditInv, TypeOK
    <3>2. rows'[pending.prop] # NoRow
      BY <1>3 DEF StagedOK
    <3> QED BY <3>1, <3>2, <1>8, <1>9, <1>12
  <2>2. \A q \in Requests : pc'[q] = "staged" <=> auditor' = q
    BY <1>4, <1>5, <1>6, <1>11, RegistryAssumption
  <2>3. \A q \in Requests : pc'[q] \in Working => seen'[q] <= Len(log')
    <3> SUFFICES ASSUME NEW q \in Requests, pc'[q] \in Working
                 PROVE  seen'[q] <= Len(log')
      OBVIOUS
    <3>1. q # r
      BY <1>5 DEF Working
    <3>2. seen[q] <= Len(log) /\ seen[q] \in Nat
      BY <3>1, <1>1, <1>6 DEF AuditInv, TypeOK
    <3> QED BY <3>1, <3>2, <1>6, <1>8
  <2> QED BY <2>1, <2>2, <2>3, <1>5, <1>6, <1>11 DEF AuditInv
<1>14. SnapshotInv'
  <2> SUFFICES ASSUME NEW q \in Requests, pc'[q] \in {"open", "locked"}
               PROVE  /\ seen'[q] # Len(log')
                      /\ \A i \in 1 .. seen'[q] : view'[q][log'[i].prop] # NoRow
    BY DEF SnapshotInv
  <2>1. q # r
    BY <1>5
  <2>2. seen[q] <= Len(log) /\ seen[q] \in Nat
    BY <2>1, <1>1, <1>6 DEF AuditInv, TypeOK, Working
  <2>3. \A i \in 1 .. seen[q] : i \in 1 .. Len(log) /\ view[q][log[i].prop] # NoRow
    BY <2>1, <2>2, <1>1, <1>6, <1>8 DEF SnapshotInv
  <2> QED BY <2>1, <2>2, <2>3, <1>6, <1>8
<1>15. FormInv'
  <2> SUFFICES ASSUME NEW q \in Requests, pc'[q] \in Working \cup {"form"}
               PROVE  FormOK(q)'
    BY DEF FormInv
  <2>1. q # r /\ FormOK(q) /\ pc[q] # "staged" /\ pc'[q] = pc[q]
        /\ form'[q] = form[q] /\ view'[q] = view[q]
    BY <1>1, <1>5, <1>6, <1>11 DEF FormInv, Working
  <2> DEFINE f == form[q]
             p == form[q].prop
  <2>2. /\ form[q] # NoForm /\ p \in Props /\ f.ver \in Nat /\ f.at \in Nat
        /\ rows[p] # NoRow => rows[p].ver \in Nat
        /\ rows'[p] # NoRow => rows'[p].ver \in Nat
    <3>1. form[q] # NoForm
      BY <2>1, <1>1 DEF ControlInv
    <3>2. form[q] \in [prop : Props, ver : Nat, at : Nat]
      BY <3>1, <1>1 DEF TypeOK
    <3>3. \A x \in Props : /\ rows[x] \in Row \cup {NoRow}
                           /\ rows'[x] \in Row \cup {NoRow}
      BY <1>1, <1>10 DEF TypeOK
    <3> QED BY <3>1, <3>2, <3>3, RowFacts
  <2>3. \A o \in Requests : \A x : Creates(o, x)' => Creates(o, x)
    BY <1>5, <1>6 DEF Creates
  <2>4. f.ver = 0 => rows'[p] = NoRow /\ \A o \in Requests : Creates(o, p)' => o = q
    BY <2>1, <2>2, <2>3, <1>12 DEF FormOK
  <2>5. f.ver # 0 => rows'[p] # NoRow /\ rows[p] # NoRow /\ f.ver <= rows'[p].ver
    BY <2>1, <2>2, <1>12 DEF FormOK
  <2>6. ASSUME NEW i \in f.at + 1 .. Len(log'), log'[i].prop = p, log'[i].kind \in SaveKinds
        PROVE  f.ver < rows'[p].ver
    <3>0. i \in 1 .. Len(log) + 1
      BY <2>2, <1>8
    <3>1. rows'[p] # NoRow /\ f.ver # 0
      BY <3>0, <2>4, <2>6, <1>8, <1>13 DEF AuditInv
    <3>2. CASE i \in 1 .. Len(log)
      <4>1. f.ver < rows[p].ver
        BY <3>2, <2>1, <2>2, <2>6, <1>8 DEF FormOK
      <4> QED BY <4>1, <3>1, <2>2, <2>5, <1>12
    <3>3. CASE i = Len(log) + 1
      <4>1. pending.prop = p /\ pending.kind \in SaveKinds
        BY <3>3, <2>6, <1>8
      <4>2. rows[p].ver < rows'[p].ver
        BY <4>1, <3>1, <2>5, <1>3 DEF StagedOK
      <4>3. f.ver <= rows[p].ver
        BY <3>1, <2>1 DEF FormOK
      <4> QED BY <4>2, <4>3, <3>1, <2>2, <2>5
    <3> QED BY <3>0, <3>2, <3>3, <1>9
  <2>7. f.at <= Len(log')
    BY <2>1, <2>2, <1>8 DEF FormOK
  <2>8. /\ pc[q] \in {"open", "locked"} /\ f.ver # 0 =>
              view[q][p] # NoRow /\ f.ver <= view[q][p].ver
        /\ pc[q] = "locked" => FormCurrent(q)
    BY <2>1 DEF FormOK
  <2>9. FormCurrent(q)' <=> FormCurrent(q)
    BY <2>1 DEF FormCurrent
  <2> QED BY <2>1, <2>4, <2>5, <2>6, <2>7, <2>8, <2>9 DEF FormOK
<1>16. StagedInv'
  BY <1>5, <1>6, <1>11 DEF StagedInv
<1>17. UndoneOnce'
  <2> SUFFICES ASSUME NEW i \in 1 .. Len(log) + 1, NEW j \in 1 .. Len(log) + 1,
                      log'[i].undoes # 0, log'[i].undoes = log'[j].undoes
               PROVE  i = j
    BY <1>8 DEF UndoneOnce
  <2>1. pending.undoes # 0 => \A x \in 1 .. Len(log) : log[x].undoes # pending.undoes
    BY <1>3, <1>8 DEF StagedOK
  <2>2. \A x, y \in 1 .. Len(log) :
           log[x].undoes # 0 /\ log[x].undoes = log[y].undoes => x = y
    BY <1>1, <1>8 DEF UndoneOnce
  <2> QED BY <2>1, <2>2, <1>8, <1>9
<1>18. LockInv'
  BY <1>1, <1>2 DEF LockInv
<1> QED BY <1>5, <1>10, <1>13, <1>14, <1>15, <1>16, <1>17, <1>18 DEF RegistryInv

(* Every step keeps the invariant.                                         *)
LEMMA NextPreserves == RegistryInv /\ [Next]_vars => RegistryInv'
<1> SUFFICES ASSUME RegistryInv, [Next]_vars PROVE RegistryInv'
  OBVIOUS
<1>1. CASE UNCHANGED vars
  <2> USE <1>1 DEF vars, audit, lockVars, session
  <2>1. TypeOK' /\ ConnInv' /\ LockInv' /\ ControlInv' /\ SaversHoldTheirLock'
    BY DEF RegistryInv, TypeOK, ConnInv, LockInv, ControlInv, SaversHoldTheirLock, Working
  <2>2. AuditInv' /\ SnapshotInv' /\ UndoneOnce'
    BY DEF RegistryInv, AuditInv, SnapshotInv, UndoneOnce, Working
  <2>3. FormInv'
    BY DEF RegistryInv, FormInv, FormOK, FormCurrent, Creates, Working
  <2>4. StagedInv'
    BY DEF RegistryInv, StagedInv, StagedOK, Creates, KeepsGroupsClean, Clean, Active
  <2> QED BY <2>1, <2>2, <2>3, <2>4 DEF RegistryInv
<1>2. CASE \E r \in Requests, p \in Props : Open(r, p)
  BY <1>2, OpenPreserves
<1>3. CASE \E r \in Requests : Begin(r)
  BY <1>3, BeginPreserves
<1>4. CASE \E r \in Requests, t \in TDs : GetLock(r, t) \/ GetLockTimesOut(r, t)
  BY <1>4, GetLockPreserves, GetLockTimesOutPreserves
<1>5. CASE \E r \in Requests, approved \in BOOLEAN : Save(r, approved)
  BY <1>5, SavePreserves
<1>6. CASE \E r \in Requests : SoftDelete(r) \/ Restore(r)
  BY <1>6, SoftDeletePreserves
<1>7. CASE \E r \in Requests : Undo(r)
  BY <1>7, UndoPreserves
<1>8. CASE \E r \in Requests : Commit(r)
  BY <1>8, CommitPreserves
<1>9. CASE \E r \in Requests : Rollback(r)
  BY <1>9, RollbackPreserves
<1>10. CASE \E r \in Requests : ReleaseLock(r)
  BY <1>10, ReleaseLockPreserves
<1>11. CASE Recycle
  BY <1>11, RecyclePreserves
<1> QED
  BY <1>1, <1>2, <1>3, <1>4, <1>5, <1>6, <1>7, <1>8, <1>9, <1>10, <1>11 DEF Next

LEMMA RegistryInvariant == Spec => []RegistryInv
<1>1. Init => RegistryInv
  BY InitInv
<1>2. RegistryInv /\ [Next]_vars => RegistryInv'
  BY NextPreserves
<1> QED BY <1>1, <1>2, PTL DEF Spec

(* Only a commit changes the rows.                                         *)
LEMMA RowsChangeByCommit ==
  ASSUME [Next]_vars, rows' # rows
  PROVE  \E r \in Requests : Commit(r)
BY ZenonT(30) DEF Next, vars, audit, lockVars, session, Open, Begin, GetLock, GetLockTimesOut,
       Save, SoftDelete, Restore, Undo, Stage, Rollback, ReleaseLock, Recycle

-----------------------------------------------------------------------------
(* All variables keep their types.                                         *)
THEOREM RegistryTypeCorrect == Spec => []TypeOK
<1>1. RegistryInv => TypeOK
  BY DEF RegistryInv
<1> QED BY <1>1, RegistryInvariant, PTL

(* Whoever is between GET_LOCK and its commit owns the named lock of the   *)
(* TD it saves, though finished sessions release locks on connections that *)
(* are not theirs any more.                                                *)
THEOREM SaversExclude == Spec => []SaversHoldTheirLock
<1>1. RegistryInv => SaversHoldTheirLock
  BY DEF RegistryInv
<1> QED BY <1>1, RegistryInvariant, PTL

(* No event is compensated twice.                                          *)
THEOREM NeverUndoneTwice == Spec => []UndoneOnce
<1>1. RegistryInv => UndoneOnce
  BY DEF RegistryInv
<1> QED BY <1>1, RegistryInvariant, PTL

(* An edit replaces exactly the version its form displayed: a form is      *)
(* never older than its row when the save commits, and every save since    *)
(* would have made the row newer.                                          *)
THEOREM EditsReplaceTheirVersion == Spec => EditsReplaceWhatTheySaw
<1> DEFINE Step ==
      \A r \in Requests :
        pc[r] = "staged" /\ want[r] # NoTD /\ log' # log /\ pc'[r] # "staged" =>
          LET p == form[r].prop
          IN  /\ rows[p] # NoRow => rows[p].ver = form[r].ver
              /\ \A e \in form[r].at + 1 .. Len(log) :
                    log[e].prop = p => log[e].kind \in {"delete", "restore", "undo"}
<1>1. RegistryInv => Step
  <2> SUFFICES ASSUME RegistryInv, NEW r \in Requests, pc[r] = "staged", want[r] # NoTD
               PROVE  LET p == form[r].prop
                      IN  /\ rows[p] # NoRow => rows[p].ver = form[r].ver
                          /\ \A e \in form[r].at + 1 .. Len(log) :
                                log[e].prop = p => log[e].kind \in {"delete", "restore", "undo"}
    OBVIOUS
  <2> DEFINE p == form[r].prop
  <2>1. FormOK(r) /\ TypeOK /\ AuditInv
    BY DEF RegistryInv, FormInv, Working
  <2>2. form[r] \in [prop : Props, ver : Nat, at : Nat]
    BY DEF RegistryInv, ControlInv, TypeOK, Working
  <2>3. rows[p] # NoRow => rows[p].ver = form[r].ver
    BY <2>1 DEF FormOK
  <2>4. ASSUME NEW e \in form[r].at + 1 .. Len(log), log[e].prop = p
        PROVE  log[e].kind \in {"delete", "restore", "undo"}
    <3>1. e \in DOMAIN log /\ log[e] \in Event
      BY <2>1, <2>2 DEF TypeOK
    <3>2. rows[p] # NoRow
      BY <3>1, <2>1, <2>4 DEF AuditInv
    <3>3. log[e].kind \in SaveKinds => form[r].ver < rows[p].ver
      BY <2>1, <2>4 DEF FormOK
    <3>4. log[e].kind \notin SaveKinds
      BY <3>2, <3>3, <2>2, <2>3
    <3> QED BY <3>1, <3>4 DEF SaveKinds, Event
  <2> QED BY <2>3, <2>4
<1>2. RegistryInv /\ [Next]_vars => [Step]_vars
  BY <1>1
<1>3. EditsReplaceWhatTheySaw <=> [][Step]_vars
  BY DEF EditsReplaceWhatTheySaw
<1> HIDE DEF Step
<1> QED BY <1>2, <1>3, RegistryInvariant, PTL DEF Spec

(* Saves and deletions never make two active properties share a TD without *)
(* the marker: only a commit that brings a deleted one back does.          *)
THEOREM OnlyRestoreSharesUnverified == Spec => SharedUnverifiedOnlyByRestore
<1> DEFINE Step ==
      \A t \in TDs :
        Clean(rows, t) /\ ~Clean(rows', t) =>
          \E p \in Active(rows', t) : rows[p] # NoRow /\ ~rows[p].live
<1>1. RegistryInv /\ [Next]_vars => [Step]_vars
  <2> SUFFICES ASSUME RegistryInv, [Next]_vars PROVE Step
    OBVIOUS
  <2>1. CASE rows' = rows
    BY <2>1
  <2>2. CASE rows' # rows
    <3>1. PICK r \in Requests : Commit(r)
      BY <2>2, RowsChangeByCommit
    <3>2. KeepsGroupsClean(rows, rows')
      BY <3>1, CommitFacts DEF StagedOK
    <3> QED BY <3>2 DEF KeepsGroupsClean
  <2> QED BY <2>1, <2>2
<1>2. SharedUnverifiedOnlyByRestore <=> [][Step]_vars
  BY DEF SharedUnverifiedOnlyByRestore
<1> HIDE DEF Step
<1> QED BY <1>1, <1>2, RegistryInvariant, PTL DEF Spec

-----------------------------------------------------------------------------
(* The public portal.                                                      *)

(* What Append does to the history of the served file.                     *)
LEMMA PostOne ==
  ASSUME posts \in Seq(Snapshots), NEW n \in Snapshots,
         posts' = Append(posts, n)
  PROVE  /\ posts' \in Seq(Snapshots)
         /\ Version' = Version + 1
         /\ \A k \in 1..Version : posts'[k] = posts[k]
         /\ posts'[Version + 1] = n
         /\ Posted' = Posted \union {n}
<1>1. /\ posts' \in Seq(Snapshots)
      /\ Version' = Version + 1
      /\ \A k \in 1..Version : posts'[k] = posts[k]
      /\ posts'[Version + 1] = n
  BY DEF Version
<1>2. Version \in Nat
  BY DEF Version
<1>3. ASSUME NEW x \in Posted' PROVE x \in Posted \union {n}
  <2>1. PICK k \in 1..Version' : x = posts'[k]
    BY <1>3 DEF Posted
  <2>2. CASE k = Version + 1
    BY <2>1, <2>2, <1>1
  <2>3. CASE k \in 1..Version
    BY <2>1, <2>3, <1>1 DEF Posted
  <2> QED BY <2>2, <2>3, <1>1, <1>2
<1>4. ASSUME NEW x \in Posted PROVE x \in Posted'
  <2>1. PICK k \in 1..Version : x = posts[k]
    BY <1>4 DEF Posted
  <2>2. x = posts'[k]
    BY <2>1, <1>1
  <2>3. Version' = Version + 1
    BY <1>1
  <2>4. k \in 1..Version'
    BY <2>3, <1>2
  <2> QED BY <2>2, <2>4 DEF Posted
<1>5. n \in Posted'
  <2>1. Version + 1 \in 1..Version'
    BY <1>1, <1>2
  <2> QED BY <2>1, <1>1 DEF Posted
<1> QED BY <1>1, <1>3, <1>4, <1>5

(* The served snapshot is one that was written.                            *)
LEMMA ServedPosted ==
  ASSUME PortalTypeOK
  PROVE  Served \in Posted /\ Served \in Snapshots /\ Version \in Nat
<1>1. Version \in 1..Version
  BY DEF PortalTypeOK, Version
<1> QED BY <1>1 DEF PortalTypeOK, Served, Posted, Version

(* The website before the first run satisfies the invariant.               *)
LEMMA InitPortalInv == PortalInit => PortalInv
<1> SUFFICES ASSUME PortalInit PROVE PortalInv
  OBVIOUS
<1>0. Version = 1 /\ posts[1] = 0 /\ Posted = {0}
  BY DEF PortalInit, Version, Posted
<1>1. PortalTypeOK
  BY <1>0, PortalAssumption DEF PortalInit, PortalTypeOK, Runs, Snapshots, Version
<1>2. OrderInv
  BY <1>0, PortalAssumption DEF PortalInit, OrderInv, CommitReplacesItsBaseline, Runs
<1>3. ContentInv
  BY <1>0, PortalAssumption
  DEF PortalInit, ContentInv, CandidateKept, VerifiedMeansPublished, Runs
<1> QED BY <1>1, <1>2, <1>3 DEF PortalInv

(* Under the lock a new run is later than all others.                      *)
LEMMA GeneratePreserves ==
  ASSUME PortalInv, NEW n \in Runs, Generate(n)
  PROVE  PortalInv'
<1> USE PortalAssumption DEF PortalInv, Generate, commits, readers
<1>0. Posted' = Posted /\ Version' = Version
  BY DEF Posted, Version
<1>1. PortalTypeOK'
  BY <1>0 DEF PortalTypeOK
<1>2. OrderInv'
  <2>1. \A m, k \in Runs :
          phase'[m] \in {"new", "generated"} /\ m < k => phase'[k] = "new"
    <3> SUFFICES ASSUME NEW m \in Runs, NEW k \in Runs, m < k,
                        phase'[m] \in {"new", "generated"}
                 PROVE  phase'[k] = "new"
      OBVIOUS
    <3>1. phase[m] = "new"
      BY DEF PortalTypeOK, ActiveRuns
    <3>2. phase[k] = "new"
      BY <3>1 DEF OrderInv
    <3>3. k # n
      BY <3>1
    <3> QED BY <3>2, <3>3 DEF PortalTypeOK
  <2> QED BY <2>1, <1>0 DEF PortalTypeOK, OrderInv, CommitReplacesItsBaseline
<1>3. ContentInv'
  BY <1>0 DEF PortalTypeOK, ContentInv, CandidateKept, VerifiedMeansPublished
<1> QED BY <1>1, <1>2, <1>3

(* When a ticket is issued everything written is of earlier runs: a later  *)
(* run has not begun, and this one had no ticket to be written with.       *)
LEMMA PreparePreserves ==
  ASSUME PortalInv, NEW n \in Runs, Prepare(n)
  PROVE  PortalInv'
<1> USE PortalAssumption DEF PortalInv, Prepare, commits, readers
<1>0. Posted' = Posted /\ Version' = Version /\ Version \in Nat
  BY ServedPosted DEF Posted, Version
<1>1. PortalTypeOK'
  BY <1>0 DEF PortalTypeOK
<1>2. \A k \in 1..Version : posts[k] < n
  <2> TAKE k \in 1..Version
  <2>1. CASE k = 1
    BY <2>1 DEF OrderInv, Runs
  <2>2. CASE k \in 2..Version
    <3>1. posts[k] \in Runs /\ baseline[posts[k]] = k - 1
      BY <2>2 DEF OrderInv, CommitReplacesItsBaseline
    <3>2. baseline[posts[k]] # 0
      BY <2>2, <3>1
    <3>3. phase[posts[k]] \notin {"new", "generated"}
      BY <3>1, <3>2 DEF OrderInv
    <3>4. ~(n < posts[k])
      BY <3>1, <3>3 DEF OrderInv
    <3>5. n # posts[k]
      BY <3>3
    <3> QED BY <3>1, <3>4, <3>5 DEF Runs
  <2> QED BY <2>1, <2>2, <1>0
<1>3. n \notin Posted
  BY <1>2 DEF Posted, Runs
<1>4. OrderInv'
  <2>1. \A m, k \in Runs :
          phase'[m] \in {"new", "generated"} /\ m < k => phase'[k] = "new"
    BY DEF PortalTypeOK, OrderInv
  <2>2. \A m \in Runs : phase'[m] \in {"new", "generated"} => baseline'[m] = 0
    BY DEF PortalTypeOK, OrderInv
  <2>3. \A m \in Runs : ticket'[m] = "none" <=> baseline'[m] = 0
    BY <1>0 DEF PortalTypeOK, OrderInv
  <2>4. \A k \in 2..Version : posts[k] \in Runs /\ posts[k] # n
    BY <1>0, <1>2 DEF OrderInv, Runs
  <2>5. CommitReplacesItsBaseline'
    BY <2>4, <1>0 DEF PortalTypeOK, OrderInv, CommitReplacesItsBaseline
  <2>6. \A m \in Runs : \A k \in 1..baseline'[m] : posts'[k] < m
    BY <1>2 DEF PortalTypeOK, OrderInv
  <2>7. \A i \in Instances : at'[i] # "idle" =>
            of'[i] \in Runs /\ ticket'[of'[i]] # "none"
    BY DEF PortalTypeOK, OrderInv
  <2> QED BY <2>1, <2>2, <2>3, <2>4, <2>5, <2>6, <2>7, <1>0 DEF OrderInv
<1>5. ContentInv'
  BY <1>0 DEF PortalTypeOK, ContentInv, CandidateKept, VerifiedMeansPublished
<1> QED BY <1>1, <1>4, <1>5

(* The bytes arrive in an empty staging file.                              *)
LEMMA UploadPreserves ==
  ASSUME PortalInv, NEW n \in Runs, Upload(n)
  PROVE  PortalInv'
<1> USE PortalAssumption DEF PortalInv, Upload, commits, readers
<1>0. Posted' = Posted /\ Version' = Version
  BY DEF Posted, Version
<1>1. PortalTypeOK'
  BY <1>0 DEF PortalTypeOK
<1>2. OrderInv'
  BY <1>0 DEF PortalTypeOK, OrderInv, CommitReplacesItsBaseline
<1>3. ContentInv'
  BY <1>0 DEF PortalTypeOK, ContentInv, CandidateKept, VerifiedMeansPublished
<1> QED BY <1>1, <1>2, <1>3

(* A ticket past its expiry has still been issued.                         *)
LEMMA ExpirePreserves ==
  ASSUME PortalInv, NEW n \in Runs, Expire(n)
  PROVE  PortalInv'
<1> USE PortalAssumption DEF PortalInv, Expire, TicketAccepted, commits, readers
<1>0. Posted' = Posted /\ Version' = Version
  BY DEF Posted, Version
<1>1. PortalTypeOK'
  BY <1>0 DEF PortalTypeOK
<1>2. OrderInv'
  BY <1>0 DEF PortalTypeOK, OrderInv, CommitReplacesItsBaseline
<1>3. ContentInv'
  BY <1>0 DEF PortalTypeOK, ContentInv, CandidateKept, VerifiedMeansPublished
<1> QED BY <1>1, <1>2, <1>3

(* What an instance serves has been written.                               *)
LEMMA VerifyPreserves ==
  ASSUME PortalInv, NEW n \in Runs, NEW i \in Instances, Verify(n, i)
  PROVE  PortalInv'
<1> USE PortalAssumption DEF PortalInv, Verify, commits, readers
<1>0. Posted' = Posted /\ Version' = Version
  BY DEF Posted, Version
<1>1. PortalTypeOK'
  BY <1>0 DEF PortalTypeOK
<1>2. OrderInv'
  BY <1>0 DEF PortalTypeOK, OrderInv, CommitReplacesItsBaseline
<1>3. phase'[n] = "verified" => n \in Posted
  BY DEF PortalTypeOK, ContentInv
<1>4. ContentInv'
  BY <1>0, <1>3 DEF PortalTypeOK, ContentInv, CandidateKept, VerifiedMeansPublished
<1> QED BY <1>1, <1>2, <1>4

(* The lock is given back.                                                 *)
LEMMA GiveUpPreserves ==
  ASSUME PortalInv, NEW n \in Runs, GiveUp(n)
  PROVE  PortalInv'
<1> USE PortalAssumption DEF PortalInv, GiveUp, commits, readers
<1>0. Posted' = Posted /\ Version' = Version
  BY DEF Posted, Version
<1>1. PortalTypeOK'
  BY <1>0 DEF PortalTypeOK, ActiveRuns
<1>2. OrderInv'
  BY <1>0 DEF PortalTypeOK, OrderInv, ActiveRuns, CommitReplacesItsBaseline
<1>3. ContentInv'
  BY <1>0 DEF PortalTypeOK, ContentInv, ActiveRuns, CandidateKept, VerifiedMeansPublished
<1> QED BY <1>1, <1>2, <1>3

(* A candidate already served has been written.                            *)
LEMMA StartCommitPreserves ==
  ASSUME PortalInv, NEW n \in Runs, NEW i \in Instances, StartCommit(i, n)
  PROVE  PortalInv'
<1> USE PortalAssumption DEF PortalInv, StartCommit, TicketAccepted, Goto, office, readers
<1>0. Posted' = Posted /\ Version' = Version /\ n \in Snapshots
  BY DEF Posted, Version, Runs, Snapshots
<1>1. PortalTypeOK'
  BY <1>0 DEF PortalTypeOK
<1>2. OrderInv'
  BY <1>0 DEF PortalTypeOK, OrderInv, CommitReplacesItsBaseline
<1>3. at'[i] = "remove" => n \in Posted
  BY ServedPosted DEF PortalTypeOK
<1>4. ContentInv'
  BY <1>0, <1>3 DEF PortalTypeOK, ContentInv, CandidateKept, VerifiedMeansPublished
<1> QED BY <1>1, <1>2, <1>4

(* Only the program counter of one commit moves, and not to a write or a   *)
(* removal it is not entitled to.                                          *)
LEMMA CommitMoves ==
  ASSUME PortalInv, NEW i \in Instances,
         UNCHANGED <<office, posts, of, readers>>,
         at[i] # "idle",
         \/ at' = [at EXCEPT ![i] = "idle"]
         \/ at' = [at EXCEPT ![i] = "staged"]
         \/ /\ at' = [at EXCEPT ![i] = "store"]
            /\ staging[of[i]] = "whole"
  PROVE  PortalInv'
<1> USE PortalAssumption DEF PortalInv, office, readers
<1>0. Posted' = Posted /\ Version' = Version
  BY DEF Posted, Version
<1>1. PortalTypeOK'
  BY <1>0 DEF PortalTypeOK
<1>2. OrderInv'
  BY <1>0 DEF PortalTypeOK, OrderInv, CommitReplacesItsBaseline
<1>3. ContentInv'
  BY <1>0 DEF PortalTypeOK, ContentInv, CandidateKept, VerifiedMeansPublished
<1> QED BY <1>1, <1>2, <1>3

(* The conditional write lands on the version of the commit's own ticket.  *)
LEMMA StorePreserves ==
  ASSUME PortalInv, NEW i \in Instances, Store(i)
  PROVE  PortalInv'
<1> USE PortalAssumption DEF PortalInv, Store, Goto, office
<1> DEFINE n == of[i]
<1>1. /\ n \in Runs /\ n \in Snapshots
      /\ baseline[n] = Version /\ Version \in Nat
  BY ServedPosted DEF PortalTypeOK, OrderInv, Runs, Snapshots
<1>2. /\ posts' \in Seq(Snapshots)
      /\ \A k \in 1..Version : posts'[k] = posts[k]
      /\ posts'[Version + 1] = n
  BY <1>1, PostOne DEF PortalTypeOK
<1>3. Version' = Version + 1 /\ Posted' = Posted \union {n}
  BY <1>1, PostOne DEF PortalTypeOK
<1>4. PortalTypeOK'
  <2>1. baseline' \in [Runs -> 0..Version']
    BY <1>1, <1>3 DEF PortalTypeOK
  <2>2. Version' > 0
    BY <1>1, <1>3
  <2>3. /\ at' \in [Instances -> {"idle", "head", "staged", "store", "remove"}]
        /\ cache' \in [Instances -> Snapshots \union {NoSnapshot}]
    BY DEF PortalTypeOK
  <2>4. posts' \in Seq(Snapshots)
    BY <1>2
  <2> QED BY <2>1, <2>2, <2>3, <2>4 DEF PortalTypeOK
<1>5. OrderInv'
  <2>1. posts'[1] = 0
    BY SMTT(60), <1>1, <1>2 DEF PortalTypeOK, OrderInv
  <2>2. ASSUME NEW k \in 2..Version' 
        PROVE  posts'[k] \in Runs /\ baseline'[posts'[k]] = k - 1
    <3>1. CASE k = Version + 1
      BY <3>1, <1>1, <1>2
    <3>2. CASE k \in 2..Version
      BY <3>2, <1>1, <1>2 DEF OrderInv, CommitReplacesItsBaseline
    <3>3. Version' = Version + 1 /\ Version \in Nat
      BY <1>1, <1>3
    <3>4. k = Version + 1 \/ k \in 2..Version
      BY <3>3
    <3> QED BY <3>1, <3>2, <3>4
  <2>3. ASSUME NEW m \in Runs, NEW k \in 1..baseline'[m]
        PROVE  posts'[k] < m
    <3>1. baseline[m] \in 0..Version
      BY DEF PortalTypeOK
    <3>2. k \in 1..baseline[m] /\ k \in 1..Version
      BY <3>1, <1>1
    <3> QED BY <3>2, <1>2 DEF OrderInv
  <2>4. \A j \in Instances : at'[j] # "idle" =>
            of'[j] \in Runs /\ ticket'[of'[j]] # "none"
    BY <1>1 DEF PortalTypeOK, OrderInv
  <2> QED BY ZenonT(60), <2>1, <2>2, <2>3, <2>4 DEF OrderInv, CommitReplacesItsBaseline
<1>6. ContentInv'
  <2>1. staging[n] \in {"whole", "removed"}
    BY DEF ContentInv
  <2> QED BY <2>1, <1>1, <1>3
      DEF PortalTypeOK, ContentInv, CandidateKept, VerifiedMeansPublished
<1> QED BY <1>4, <1>5, <1>6

(* What is removed has been written.                                       *)
LEMMA RemovePreserves ==
  ASSUME PortalInv, NEW i \in Instances, Remove(i)
  PROVE  PortalInv'
<1> USE PortalAssumption DEF PortalInv, Remove, Goto, readers
<1>0. Posted' = Posted /\ Version' = Version /\ of[i] \in Posted
  BY DEF Posted, Version, ContentInv
<1>1. PortalTypeOK'
  BY <1>0 DEF PortalTypeOK
<1>2. OrderInv'
  BY <1>0 DEF PortalTypeOK, OrderInv, CommitReplacesItsBaseline
<1>3. ContentInv'
  <2>1. CASE staging' = staging
    BY <2>1, <1>0 DEF PortalTypeOK, ContentInv, CandidateKept, VerifiedMeansPublished
  <2>2. CASE staging' = [staging EXCEPT ![of[i]] = "removed"]
    <3>1. \A n \in Runs : \/ staging'[n] = staging[n]
                            \/ (staging'[n] = "removed" /\ n \in Posted)
      <4> TAKE n \in Runs
      <4>1. staging \in [Runs -> {"none", "whole", "damaged", "removed"}]
        BY DEF PortalTypeOK
      <4>2. CASE n = of[i]
        <5>1. staging'[n] = "removed"
          BY <2>2, <4>1, <4>2
        <5> QED BY <5>1, <4>2, <1>0
      <4>3. CASE n # of[i]
        <5>1. staging'[n] = staging[n]
          BY <2>2, <4>1, <4>3
        <5> QED BY <5>1
      <4> QED BY <4>2, <4>3
    <3>2. \A n \in Runs : n \in Posted => staging'[n] \in {"whole", "removed"}
      BY <3>1 DEF ContentInv
    <3>3. \A j \in Instances :
              at'[j] = "store" => staging'[of'[j]] \in {"whole", "removed"}
      BY <3>1 DEF PortalTypeOK, OrderInv, ContentInv
    <3>4. CandidateKept'
      BY <3>1, <1>0 DEF ContentInv, CandidateKept
    <3>5. VerifiedMeansPublished'
      BY <3>2, <1>0 DEF ContentInv, VerifiedMeansPublished
    <3> QED BY <3>2, <3>3, <3>4, <3>5, <1>0 DEF PortalTypeOK, ContentInv
  <2> QED BY <2>1, <2>2
<1> QED BY <1>1, <1>2, <1>3

(* Loading, caching and forgetting deal in what has been written.          *)
LEMMA ReadersPreserve ==
  ASSUME PortalInv, NEW i \in Instances,
         Load(i) \/ Loaded(i) \/ ExpireCache(i)
  PROVE  PortalInv'
<1> USE PortalAssumption DEF PortalInv, Load, Loaded, ExpireCache, office, commits
<1>0. Posted' = Posted /\ Version' = Version
  BY DEF Posted, Version
<1>1. Served \in Posted /\ Served \in Snapshots
  BY ServedPosted
<1>2. PortalTypeOK'
  BY ZenonT(30), <1>0, <1>1 DEF PortalTypeOK
<1>3. OrderInv'
  BY <1>0 DEF PortalTypeOK, OrderInv, CommitReplacesItsBaseline
<1>4. ContentInv'
  BY SMTT(20), <1>0, <1>1 DEF PortalTypeOK, ContentInv, CandidateKept, VerifiedMeansPublished
<1> QED BY <1>2, <1>3, <1>4

(* The invariant is inductive.                                             *)
LEMMA PortalNextPreserves == PortalInv /\ [PortalNext]_portalVars => PortalInv'
<1> SUFFICES ASSUME PortalInv, [PortalNext]_portalVars PROVE PortalInv'
  OBVIOUS
<1>1. CASE UNCHANGED portalVars
  <2> USE <1>1 DEF portalVars, PortalInv
  <2>1. Version' = Version /\ Posted' = Posted
    BY DEF Version, Posted
  <2>2. PortalTypeOK'
    BY <2>1 DEF PortalTypeOK
  <2>3. OrderInv'
    BY <2>1 DEF OrderInv, CommitReplacesItsBaseline
  <2>4. ContentInv'
    BY <2>1 DEF ContentInv, CandidateKept, VerifiedMeansPublished
  <2> QED BY <2>2, <2>3, <2>4
<1>2. ASSUME NEW n \in Runs, RunStep(n) PROVE PortalInv'
  BY <1>2, GeneratePreserves, PreparePreserves, UploadPreserves,
     ExpirePreserves, GiveUpPreserves, VerifyPreserves, StartCommitPreserves
  DEF RunStep
<1>3. ASSUME NEW i \in Instances, InstanceStep(i) PROVE PortalInv'
  <2>1. CASE CheckHead(i)
    BY <2>1, CommitMoves DEF CheckHead, Goto
  <2>2. CASE ReadStaged(i)
    BY <2>2, CommitMoves DEF ReadStaged, PayloadAccepted, Goto
  <2>3. CASE Refuse(i)
    BY <2>3, CommitMoves DEF Refuse, Goto
  <2>4. CASE Break(i)
    BY <2>4, CommitMoves DEF Break, Goto
  <2>5. CASE Store(i)
    BY <2>5, StorePreserves
  <2>6. CASE Remove(i)
    BY <2>6, RemovePreserves
  <2>7. CASE Load(i) \/ Loaded(i) \/ ExpireCache(i)
    BY <2>7, ReadersPreserve
  <2> QED BY <1>3, <2>1, <2>2, <2>3, <2>4, <2>5, <2>6, <2>7 DEF InstanceStep
<1> QED BY <1>1, <1>2, <1>3 DEF PortalNext

(* Every reachable state of the publication protocol satisfies it.         *)
THEOREM PortalInvariance == PortalSpec => []PortalInv
<1>1. PortalInit => PortalInv
  BY InitPortalInv
<1>2. PortalInv /\ [PortalNext]_portalVars => PortalInv'
  BY PortalNextPreserves
<1> QED BY <1>1, <1>2, PTL DEF PortalSpec

(* Each variable keeps its type, a ticket's baseline never lies ahead of   *)
(* the storage version included.                                           *)
THEOREM PortalTypeCorrect == PortalSpec => []PortalTypeOK
<1>1. PortalInv => PortalTypeOK
  BY DEF PortalInv
<1> QED BY <1>1, PortalInvariance, PTL

(* A commit replaces what was being served when its ticket was issued.     *)
THEOREM CommitsReplaceTheirBaseline == PortalSpec => []CommitReplacesItsBaseline
<1>1. PortalInv => CommitReplacesItsBaseline
  BY DEF PortalInv, OrderInv
<1> QED BY <1>1, PortalInvariance, PTL

(* The portal never goes back in time: the ticket of the later write was   *)
(* issued when the earlier snapshot had been written, so for a later run.  *)
THEOREM PortalNeverBackInTime == PortalSpec => []NeverBackInTime
<1>1. ASSUME PortalInv PROVE NeverBackInTime
  <2> SUFFICES ASSUME NEW j \in 1..Version, NEW k \in 1..Version, j < k
               PROVE  posts[j] < posts[k]
    BY DEF NeverBackInTime
  <2>1. Version \in Nat
    BY <1>1, ServedPosted DEF PortalInv
  <2>2. k \in 2..Version
    BY <2>1
  <2>3. posts[k] \in Runs /\ baseline[posts[k]] = k - 1
    BY <1>1, <2>2 DEF PortalInv, OrderInv, CommitReplacesItsBaseline
  <2>4. j \in 1..baseline[posts[k]]
    BY <2>1, <2>3
  <2> QED BY <1>1, <2>3, <2>4 DEF PortalInv, OrderInv
<1> QED BY <1>1, PortalInvariance, PTL

(* No failure, conflict or retry loses a candidate that was not published. *)
THEOREM PortalKeepsCandidates == PortalSpec => []CandidateKept
<1>1. PortalInv => CandidateKept
  BY DEF PortalInv, ContentInv
<1> QED BY <1>1, PortalInvariance, PTL

(* A verified run's snapshot was put in place, and whole.                  *)
THEOREM PortalVerifiedMeansPublished == PortalSpec => []VerifiedMeansPublished
<1>1. PortalInv => VerifiedMeansPublished
  BY DEF PortalInv, ContentInv
<1> QED BY <1>1, PortalInvariance, PTL
=============================================================================
