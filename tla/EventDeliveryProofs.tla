------------------------- MODULE EventDeliveryProofs -------------------------
(***************************************************************************)
(* Theorems about EventDelivery, for any number of events and of faults.   *)
(***************************************************************************)
EXTENDS EventDelivery, FiniteSetTheorems, TLAPS

-----------------------------------------------------------------------------
(* Sequences.                                                              *)

LEMMA ToSetAppend ==
  ASSUME NEW T, NEW s \in Seq(T), NEW x \in T
  PROVE  ToSet(Append(s, x)) = ToSet(s) \cup {x} /\ Append(s, x) \in Seq(T)
<1>1. \A i \in 1..Len(s) : Append(s, x)[i] = s[i]
  OBVIOUS
<1>2. Append(s, x)[Len(s) + 1] = x /\ Len(Append(s, x)) = Len(s) + 1 /\ Len(s) \in Nat
  OBVIOUS
<1>3. DOMAIN Append(s, x) = 1..Len(s) + 1 /\ DOMAIN s = 1..Len(s)
  OBVIOUS
<1>4. 1..Len(s) + 1 = (1..Len(s)) \cup {Len(s) + 1}
  BY <1>2
<1> QED BY <1>1, <1>2, <1>3, <1>4 DEF ToSet

LEMMA ToSetTail ==
  ASSUME NEW T, NEW s \in Seq(T), s # <<>>
  PROVE  /\ ToSet(s) = {Head(s)} \cup ToSet(Tail(s)) /\ Tail(s) \in Seq(T) /\ Head(s) \in T
<1>1. Len(s) \in Nat \ {0} /\ DOMAIN s = 1..Len(s) /\ DOMAIN Tail(s) = 1..Len(s) - 1
  OBVIOUS
<1>2. \A i \in 1..Len(s) - 1 : Tail(s)[i] = s[i + 1]
  BY <1>1
<1>3. Head(s) = s[1]
  OBVIOUS
<1>4. \A i \in 1..Len(s) : i = 1 \/ (i - 1 \in 1..Len(s) - 1 /\ (i - 1) + 1 = i)
  BY <1>1
<1>5. \A i \in 1..Len(s) - 1 : i + 1 \in 1..Len(s)
  BY <1>1
<1>6. 1 \in 1..Len(s)
  BY <1>1
<1>7. ToSet(s) \subseteq {Head(s)} \cup ToSet(Tail(s))
  <2>1. SUFFICES ASSUME NEW i \in 1..Len(s) PROVE s[i] \in {Head(s)} \cup ToSet(Tail(s))
    BY <1>1 DEF ToSet
  <2>2. CASE i = 1
    BY <1>3, <2>2
  <2>3. CASE i # 1
    <3>1. i - 1 \in 1..Len(s) - 1 /\ Tail(s)[i - 1] = s[i]
      BY <1>2, <1>4, <2>3
    <3> QED BY <1>1, <3>1 DEF ToSet
  <2> QED BY <2>2, <2>3
<1>8. {Head(s)} \cup ToSet(Tail(s)) \subseteq ToSet(s)
  BY <1>1, <1>2, <1>3, <1>5, <1>6 DEF ToSet
<1> QED BY <1>7, <1>8

LEMMA ToSetConcat ==
  ASSUME NEW T, NEW s \in Seq(T), NEW t \in Seq(T)
  PROVE  s \o t \in Seq(T) /\ ToSet(s \o t) = ToSet(s) \cup ToSet(t)
<1>1. /\ s \o t \in Seq(T) /\ DOMAIN (s \o t) = 1..Len(s) + Len(t) /\ Len(s) \in Nat /\ Len(t) \in Nat
      /\ DOMAIN s = 1..Len(s) /\ DOMAIN t = 1..Len(t)
  OBVIOUS
<1>2. /\ \A i \in 1..Len(s) : (s \o t)[i] = s[i] /\ i \in 1..Len(s) + Len(t)
      /\ \A i \in 1..Len(t) : (s \o t)[i + Len(s)] = t[i] /\ i + Len(s) \in 1..Len(s) + Len(t)
      /\ \A i \in 1..Len(s) + Len(t) : i \in 1..Len(s) \/ (i - Len(s) \in 1..Len(t) /\ (i - Len(s)) + Len(s) = i)
  BY <1>1
<1>3. ToSet(s) \subseteq ToSet(s \o t) /\ ToSet(t) \subseteq ToSet(s \o t)
  <2>1. ASSUME NEW i \in 1..Len(s) PROVE s[i] \in ToSet(s \o t)
    <3>1. (s \o t)[i] = s[i] /\ i \in DOMAIN (s \o t)
      BY <1>1, <1>2
    <3> QED BY <3>1 DEF ToSet
  <2>2. ASSUME NEW i \in 1..Len(t) PROVE t[i] \in ToSet(s \o t)
    <3>1. (s \o t)[i + Len(s)] = t[i] /\ i + Len(s) \in DOMAIN (s \o t)
      BY <1>1, <1>2
    <3> QED BY <3>1 DEF ToSet
  <2> QED BY <1>1, <2>1, <2>2 DEF ToSet
<1>4. ToSet(s \o t) \subseteq ToSet(s) \cup ToSet(t)
  <2>1. SUFFICES ASSUME NEW i \in 1..Len(s) + Len(t) PROVE (s \o t)[i] \in ToSet(s) \cup ToSet(t)
    BY <1>1 DEF ToSet
  <2>2. CASE i \in 1..Len(s)
    BY <1>1, <1>2, <2>2 DEF ToSet
  <2>3. CASE i \notin 1..Len(s)
    <3>1. i - Len(s) \in 1..Len(t) /\ (s \o t)[i] = t[i - Len(s)]
      BY <1>2, <2>3
    <3> QED BY <1>1, <3>1 DEF ToSet
  <2> QED BY <2>2, <2>3
<1> QED BY <1>1, <1>3, <1>4

LEMMA ToSetSmall ==
  /\ \A T : <<>> \in Seq(T) /\ ToSet(<<>>) = {}
  /\ \A T : \A x \in T : <<x>> \in Seq(T) /\ ToSet(<<x>>) = {x}
<1>1. ASSUME NEW T PROVE <<>> \in Seq(T) /\ ToSet(<<>>) = {}
  BY DEF ToSet
<1>2. ASSUME NEW T, NEW x \in T PROVE <<x>> \in Seq(T) /\ ToSet(<<x>>) = {x}
  <2>1. <<x>> \in Seq(T) /\ DOMAIN <<x>> = 1..1 /\ <<x>>[1] = x
    OBVIOUS
  <2>2. 1..1 = {1}
    OBVIOUS
  <2> QED BY <2>1, <2>2 DEF ToSet
<1> QED BY <1>1, <1>2

LEMMA ToSetType == ASSUME NEW T, NEW s \in Seq(T) PROVE ToSet(s) \subseteq T
BY DEF ToSet

NoDup(s) == \A i, j \in DOMAIN s : s[i] = s[j] => i = j

LEMMA NoDupAppend ==
  ASSUME NEW T, NEW s \in Seq(T), NEW x \in T, x \notin ToSet(s), NoDup(s)
  PROVE  NoDup(Append(s, x))
<1>1. \A i \in 1..Len(s) : Append(s, x)[i] = s[i] /\ s[i] # x
  BY DEF ToSet
<1>2. Append(s, x)[Len(s) + 1] = x /\ Len(s) \in Nat
  OBVIOUS
<1>3. DOMAIN Append(s, x) = 1..Len(s) + 1 /\ DOMAIN s = 1..Len(s)
  OBVIOUS
<1>4. 1..Len(s) + 1 = (1..Len(s)) \cup {Len(s) + 1}
  BY <1>2
<1> QED BY <1>1, <1>2, <1>3, <1>4 DEF NoDup

LEMMA NoDupTail ==
  ASSUME NEW T, NEW s \in Seq(T), s # <<>>, NoDup(s)
  PROVE  NoDup(Tail(s)) /\ Head(s) \notin ToSet(Tail(s))
<1>1. Len(s) \in Nat \ {0} /\ DOMAIN s = 1..Len(s) /\ DOMAIN Tail(s) = 1..Len(s) - 1 /\ Head(s) = s[1]
  OBVIOUS
<1>2. \A i \in 1..Len(s) - 1 : Tail(s)[i] = s[i + 1] /\ i + 1 \in 1..Len(s) /\ i + 1 # 1
  BY <1>1
<1>3. Head(s) \notin ToSet(Tail(s))
  BY <1>1, <1>2 DEF ToSet, NoDup
<1>4. \A i, j \in 1..Len(s) - 1 : i + 1 = j + 1 => i = j
  BY <1>1
<1> QED BY <1>1, <1>2, <1>3, <1>4 DEF NoDup

LEMMA NoDupEmpty == NoDup(<<>>)
BY DEF NoDup

-----------------------------------------------------------------------------
(* The table: what each operator leaves of a row.                          *)

Row == [st : RowStates, key : Keys, tries : Nat, rests : BOOLEAN]
Table == [Rows -> Row]

LEMMA NoKeyIsKey == NoKey \in Keys
BY DEF NoKey, Keys

LEMMA SetRows ==
  ASSUME NEW t \in Table, NEW rows, NEW to \in RowStates
  PROVE  /\ Set(t, rows, to) \in Table
         /\ \A r \in Rows : /\ r \notin rows => Set(t, rows, to)[r] = t[r]
                            /\ r \in rows => /\ Set(t, rows, to)[r].st = to
                                             /\ Set(t, rows, to)[r].key = t[r].key
                                             /\ Set(t, rows, to)[r].tries = t[r].tries
BY DEF Set, Table, Row

\* The row is owed again.
Returns(t, u, r) ==
  /\ t[r].st \in {"claimed", "sent"}
  /\ u[r].st = "pending" /\ u[r].key = NoKey /\ u[r].tries = t[r].tries + 1

LEMMA BackRows ==
  ASSUME NEW t \in Table, NEW rows
  PROVE  /\ Back(t, rows) \in Table
         /\ \A r \in Rows : /\ r \notin rows => Back(t, rows)[r] = t[r]
                            /\ r \in rows => /\ Back(t, rows)[r].st = "pending"
                                             /\ Back(t, rows)[r].key = NoKey
                                             /\ Back(t, rows)[r].tries = t[r].tries + 1
<1> DEFINE e(r) == [t[r] EXCEPT !.st = "pending", !.key = NoKey, !.tries = @ + 1]
<1>1. Back(t, rows) = [r \in Rows |-> IF r \in rows THEN e(r) ELSE t[r]]
  BY DEF Back
<1>2. \A r \in Rows : /\ e(r) \in Row /\ e(r).st = "pending" /\ e(r).key = NoKey
                      /\ e(r).tries = t[r].tries + 1
  <2>1. "pending" \in RowStates
    BY DEF RowStates
  <2>2. ASSUME NEW x \in Row
        PROVE  LET y == [x EXCEPT !.st = "pending", !.key = NoKey, !.tries = @ + 1]
               IN  y \in Row /\ y.st = "pending" /\ y.key = NoKey /\ y.tries = x.tries + 1
    <3>1. x.tries + 1 \in Nat
      BY DEF Row
    <3>2. \A n \in Nat : LET y == [x EXCEPT !.st = "pending", !.key = NoKey, !.tries = n]
                        IN  y \in Row /\ y.st = "pending" /\ y.key = NoKey /\ y.tries = n
      BY <2>1, NoKeyIsKey DEF Row
    <3> QED BY <3>1, <3>2
  <2>3. \A r \in Rows : t[r] \in Row
    BY DEF Table
  <2> QED BY <2>2, <2>3
<1> HIDE DEF e
<1> QED BY <1>1, <1>2 DEF Table

LEMMA UnclaimRows ==
  ASSUME NEW t \in Table, NEW keys
  PROVE  /\ Unclaim(t, keys) \in Table
         /\ \A r \in Rows : IF t[r].key \in keys /\ t[r].st \in {"claimed", "sent"}
                              THEN Returns(t, Unclaim(t, keys), r)
                              ELSE Unclaim(t, keys)[r] = t[r]
<1> DEFINE rows == Under(t, keys) \cap In(t, {"claimed", "sent"})
<1>1. \A r \in Rows : r \in rows <=> t[r].key \in keys /\ t[r].st \in {"claimed", "sent"}
  BY DEF Under, In
<1>2. Unclaim(t, keys) = Back(t, rows)
  BY DEF Unclaim
<1> HIDE DEF rows
<1> QED BY <1>1, <1>2, BackRows DEF Returns

LEMMA BackoffRows ==
  ASSUME NEW t \in Table, NEW keys
  PROVE  /\ ReleaseWithBackoff(t, keys) \in Table
         /\ \A r \in Rows : IF t[r].key \in keys /\ t[r].st = "claimed"
                              THEN Returns(t, ReleaseWithBackoff(t, keys), r)
                              ELSE ReleaseWithBackoff(t, keys)[r] = t[r]
<1> DEFINE back == Under(t, keys) \cap In(t, {"claimed"})
           b == Back(t, back)
<1>1. /\ b \in Table
      /\ \A r \in Rows : /\ r \notin back => b[r] = t[r]
                         /\ r \in back => b[r].st = "pending" /\ b[r].key = NoKey /\ b[r].tries = t[r].tries + 1
  BY BackRows
<1>2. ReleaseWithBackoff(t, keys) = [r \in Rows |-> IF r \in back THEN [b[r] EXCEPT !.rests = TRUE] ELSE t[r]]
  BY DEF ReleaseWithBackoff
<1>3. \A r \in Rows : r \in back <=> t[r].key \in keys /\ t[r].st = "claimed"
  BY DEF Under, In
<1> HIDE DEF back, b
<1>4. \A r \in Rows : /\ [b[r] EXCEPT !.rests = TRUE] \in Row
                      /\ [b[r] EXCEPT !.rests = TRUE].st = b[r].st
                      /\ [b[r] EXCEPT !.rests = TRUE].key = b[r].key
                      /\ [b[r] EXCEPT !.rests = TRUE].tries = b[r].tries
  BY <1>1 DEF Table, Row
<1>5. ReleaseWithBackoff(t, keys) \in Table
  BY <1>2, <1>4 DEF Table
<1> QED BY <1>1, <1>2, <1>3, <1>4, <1>5 DEF Returns

\* The row keeps its key and its count, and is not owed anew.
Stays(t, u, r) ==
  /\ u[r].key = t[r].key /\ u[r].tries = t[r].tries
  /\ u[r].st = "claimed" => t[r].st = "claimed"
  /\ u[r].st = "sent" => t[r].st \in {"claimed", "sent"}
  /\ u[r].st \in {"none", "pending"} => t[r].st \in {"none", "pending"}

\* What FateIsFinal allows.
MayBecome(a, b) ==
  /\ a = "accepted" => b \in {"accepted", "delivered"}
  /\ a = "delivered" => b = "delivered"
  /\ a = "unconfirmed" => b \in {"unconfirmed", "accepted", "delivered"}
  /\ a = "undeliverable" => b = "undeliverable"

Returning == {"failed", "taken", "dropped"}

LEMMA SettledRows ==
  ASSUME row \in Table, NEW m \in Kinds, NEW keys
  PROVE  /\ Settled(m, keys) \in Table
         /\ \A r \in Rows :
              LET u == Settled(m, keys) IN
              /\ \/ Stays(row, u, r)
                 \/ m \in Returning /\ row[r].key \in keys /\ Returns(row, u, r)
              /\ MayBecome(row[r].st, u[r].st)
              /\ u[r].st = "claimed" => row[r].st = "claimed" /\ row[r].key \notin keys
              /\ u[r].st = "sent" =>
                   \/ row[r].st = "sent" /\ (m # "written" => row[r].key \notin keys)
                   \/ m = "written" /\ row[r].st = "claimed" /\ row[r].key \in keys
<1> DEFINE Good(u) ==
      /\ u \in Table
      /\ \A r \in Rows :
           /\ \/ Stays(row, u, r)
              \/ m \in Returning /\ row[r].key \in keys /\ Returns(row, u, r)
           /\ MayBecome(row[r].st, u[r].st)
           /\ u[r].st = "claimed" => row[r].st = "claimed" /\ row[r].key \notin keys
           /\ u[r].st = "sent" =>
                \/ row[r].st = "sent" /\ (m # "written" => row[r].key \notin keys)
                \/ m = "written" /\ row[r].st = "claimed" /\ row[r].key \in keys
<1>1. SUFFICES Good(Settled(m, keys))
  OBVIOUS
<1>2. CASE m = "written"
  <2>1. Settled(m, keys) = Set(row, Under(row, keys) \cap In(row, {"claimed"}), "sent")
    BY <1>2 DEF Settled, MarkSent
  <2> QED BY <1>2, <2>1, SetRows DEF Stays, MayBecome, Under, In, RowStates
<1>3. CASE m = "accepted"
  <2>1. Settled(m, keys) = Set(row, Under(row, keys) \cap In(row, {"claimed", "sent", "unconfirmed"}), "accepted")
    BY <1>3 DEF Settled, MarkAccepted
  <2> QED BY <1>3, <2>1, SetRows DEF Stays, MayBecome, Under, In, RowStates
<1>4. CASE m = "delivered"
  <2>1. Settled(m, keys) =
          Set(row, Under(row, keys) \cap In(row, {"claimed", "sent", "accepted", "unconfirmed"}), "delivered")
    BY <1>4 DEF Settled, MarkDelivered
  <2> QED BY <1>4, <2>1, SetRows DEF Stays, MayBecome, Under, In, RowStates
<1>5. CASE m = "dropped"
  <2>1. Settled(m, keys) = Unclaim(row, keys)
    BY <1>5 DEF Settled
  <2> QED BY <1>5, <2>1, UnclaimRows DEF Stays, Returns, MayBecome, Returning
<1>6. CASE m \in {"failed", "taken"}
  <2> DEFINE v == ReleaseWithBackoff(row, keys)
  <2>1. Settled(m, keys) = Unclaim(v, keys)
    BY <1>6 DEF Settled
  <2>2. /\ v \in Table
        /\ \A r \in Rows : IF row[r].key \in keys /\ row[r].st = "claimed"
                             THEN Returns(row, v, r) ELSE v[r] = row[r]
    BY BackoffRows
  <2> HIDE DEF v
  <2>3. /\ Unclaim(v, keys) \in Table
        /\ \A r \in Rows : IF v[r].key \in keys /\ v[r].st \in {"claimed", "sent"}
                             THEN Returns(v, Unclaim(v, keys), r) ELSE Unclaim(v, keys)[r] = v[r]
    BY <2>2, UnclaimRows
  <2>4. ASSUME NEW r \in Rows
        PROVE  IF row[r].key \in keys /\ row[r].st \in {"claimed", "sent"}
                 THEN Returns(row, Unclaim(v, keys), r) ELSE Unclaim(v, keys)[r] = row[r]
    BY <2>2, <2>3 DEF Returns
  <2> QED BY <1>6, <2>1, <2>3, <2>4 DEF Stays, Returns, MayBecome, Returning
<1> QED BY <1>2, <1>3, <1>4, <1>5, <1>6 DEF Kinds

LEMMA LetGoRows ==
  ASSUME NEW t \in Table, LetGo(t)
  PROVE  /\ row' \in Table /\ linked' \in {linked, 0} /\ blind \subseteq blind'
         /\ blind' \subseteq blind \cup Rows
         /\ \A r \in Rows :
              /\ t[r].st \notin {"claimed", "sent"} => row'[r] = t[r]
              /\ \/ Stays(t, row', r)
                 \/ /\ Returns(t, row', r) /\ t[r].st = "claimed"
                    /\ r \in blind' \/ (t[r].key \notin written /\ t[r].key \notin GateKeys)
              /\ row'[r].st = "claimed" => t[r].st = "claimed" /\ linked \in {0, inc} /\ linked' = linked
              /\ row'[r].st = "sent" => t[r].st = "sent"
              /\ row'[r].st # t[r].st => t[r].st \in {"claimed", "sent"}
<1>1. CASE linked \in {0, inc}
  BY <1>1 DEF LetGo, Stays
<1>2. CASE linked \notin {0, inc}
  <2> DEFINE b == Back(t, In(t, {"claimed"}))
             u == Set(b, In(t, {"sent"}), "unconfirmed")
  <2>1. /\ row' = u /\ linked' = 0
        /\ blind' = blind \cup {r \in In(t, {"claimed"}) : Out(t[r].key) \/ t[r].key \in GateKeys}
    BY <1>2 DEF LetGo, ReleaseParent
  <2> DEFINE claimed == In(t, {"claimed"})
             sent == In(t, {"sent"})
  <2>0. \A r \in Rows : (r \in claimed <=> t[r].st = "claimed") /\ (r \in sent <=> t[r].st = "sent")
    BY DEF In
  <2> HIDE DEF claimed, sent
  <2>2. /\ b \in Table
        /\ \A r \in Rows : /\ t[r].st # "claimed" => b[r] = t[r]
                           /\ t[r].st = "claimed" =>
                                b[r].st = "pending" /\ b[r].key = NoKey /\ b[r].tries = t[r].tries + 1
    BY <2>0, BackRows DEF claimed
  <2> HIDE DEF b
  <2>3. /\ u \in Table
        /\ \A r \in Rows : /\ t[r].st # "sent" => u[r] = b[r]
                           /\ t[r].st = "sent" =>
                                u[r].st = "unconfirmed" /\ u[r].key = b[r].key /\ u[r].tries = b[r].tries
    BY <2>0, <2>2, SetRows DEF sent, RowStates
  <2> HIDE DEF u
  <2>4. \A r \in Rows : t[r].st = "claimed" => r \in blind' \/ (t[r].key \notin written /\ t[r].key \notin GateKeys)
    BY <2>1 DEF In, Out
  <2> QED BY <2>1, <2>2, <2>3, <2>4 DEF Stays, Returns, In
<1> QED BY <1>1, <1>2

\* The row goes out in the batch in hand.
Claims(r) ==
  /\ row'[r].st = "claimed" /\ row'[r].key = hand'.key
  /\ \/ row[r].st = "pending" /\ row'[r].tries = row[r].tries
     \/ /\ row[r].st \in {"claimed", "sent"} /\ row[r].key \in GateKeys
        /\ row'[r].tries = row[r].tries + 1

LEMMA DrainRows ==
  ASSUME row \in Table, Drain
  PROVE  /\ row' \in Table /\ hand'.key \in Keys /\ hand'.key # NoKey
         /\ \A r \in Rows :
              \/ row'[r] = row[r] /\ (row[r].st \in {"claimed", "sent"} => row[r].key \notin GateKeys)
              \/ Returns(row, row', r) /\ row[r].key \in GateKeys
              \/ Claims(r)
         /\ \A r \in Rows : Claims(r) => <<r, row'[r].tries>> \in hand'.key
         /\ \A pair \in hand'.key :
              pair[1] \in Rows /\ Claims(pair[1]) /\ pair = <<pair[1], row'[pair[1]].tries>>
<1> DEFINE back == Unclaim(row, GateKeys)
           due == Due(back)
           key == BatchKey(back, due)
<1>1. Due(row) # {} /\ row' = Claim(back) /\ hand' = [key |-> key, gone |-> FALSE]
  BY DEF Drain
<1>2. /\ back \in Table
      /\ \A r \in Rows : IF row[r].key \in GateKeys /\ row[r].st \in {"claimed", "sent"}
                           THEN Returns(row, back, r) ELSE back[r] = row[r]
  BY UnclaimRows
<1> HIDE DEF back
<1>3. due \subseteq Rows /\ \A r \in Rows : r \in due => back[r].st = "pending"
  BY DEF Due, In
<1>4. due # {}
  <2>1. PICK r \in Rows : row[r].st = "pending" /\ ~row[r].rests
    BY <1>1 DEF Due, In
  <2>2. back[r] = row[r]
    BY <1>2, <2>1
  <2> QED BY <2>1, <2>2 DEF Due, In
<1>5. key = {<<r, back[r].tries>> : r \in due}
  BY DEF BatchKey
<1>6. row' = [r \in Rows |-> IF r \in due THEN [back[r] EXCEPT !.st = "claimed", !.key = key] ELSE back[r]]
  BY <1>1 DEF Claim
<1> HIDE DEF due
<1>7. key \in Keys /\ key # NoKey
  <2>1. \A r \in due : back[r].tries \in Nat
    BY <1>2, <1>3 DEF Table, Row
  <2>2. \A r \in due : <<r, back[r].tries>> \in Rows \X Nat
    BY <1>3, <2>1
  <2>3. key \in Keys
    BY <1>5, <2>2 DEF Keys
  <2>4. key # {}
    BY <1>4, <1>5
  <2> QED BY <2>3, <2>4 DEF NoKey
<1> HIDE DEF key
<1>8. \A r \in Rows : LET y == [back[r] EXCEPT !.st = "claimed", !.key = key]
                      IN  y \in Row /\ y.st = "claimed" /\ y.key = key /\ y.tries = back[r].tries
  BY <1>2, <1>7 DEF Table, Row, RowStates
<1>9. /\ row' \in Table
      /\ \A r \in Rows : /\ r \notin due => row'[r] = back[r]
                         /\ r \in due => row'[r].st = "claimed" /\ row'[r].key = key /\ row'[r].tries = back[r].tries
  BY <1>2, <1>6, <1>8 DEF Table
<1>10. hand'.key = key
  BY <1>1
<1>11. ASSUME NEW r \in Rows, r \in due PROVE Claims(r)
  <2>1. row[r].key \in GateKeys /\ row[r].st \in {"claimed", "sent"} => Returns(row, back, r)
    BY <1>2
  <2>2. ~(row[r].key \in GateKeys /\ row[r].st \in {"claimed", "sent"}) => back[r] = row[r]
    BY <1>2
  <2> QED BY <1>3, <1>9, <1>10, <1>11, <2>1, <2>2 DEF Claims, Returns
<1>12. ASSUME NEW r \in Rows, r \notin due
       PROVE  \/ row'[r] = row[r] /\ (row[r].st \in {"claimed", "sent"} => row[r].key \notin GateKeys)
              \/ Returns(row, row', r) /\ row[r].key \in GateKeys
  BY <1>2, <1>9, <1>12 DEF Returns
<1>13. ASSUME NEW r \in Rows, Claims(r) PROVE <<r, row'[r].tries>> \in hand'.key
  <2>1. r \in due
    BY <1>2, <1>7, <1>9, <1>10, <1>13 DEF Claims, Returns
  <2> QED BY <1>5, <1>9, <1>10, <2>1 DEF key
<1>14. ASSUME NEW pair \in hand'.key
       PROVE  pair[1] \in Rows /\ Claims(pair[1]) /\ pair = <<pair[1], row'[pair[1]].tries>>
  <2>1. PICK r \in due : pair = <<r, back[r].tries>>
    BY <1>5, <1>10 DEF key
  <2> QED BY <1>3, <1>9, <1>11, <2>1
<1> QED BY <1>7, <1>9, <1>10, <1>11, <1>12, <1>13, <1>14

LEMMA TakeOverRows ==
  ASSUME row \in Table
  PROVE  /\ TakeOver(row) \in Table
         /\ \A r \in Rows : LET u == TakeOver(row) IN
              /\ u[r].tries = row[r].tries
              /\ row[r].st = "claimed" => u[r].st = "pending" /\ u[r].key = NoKey
              /\ row[r].st = "sent" => u[r].st = "unconfirmed" /\ u[r].key = row[r].key
              /\ row[r].st \notin {"claimed", "sent"} => u[r] = row[r]
<1> DEFINE e(r) == [row[r] EXCEPT !.st = "pending", !.key = NoKey]
           f(r) == [row[r] EXCEPT !.st = "unconfirmed"]
<1>1. \A r \in Rows : /\ e(r) \in Row /\ e(r).st = "pending" /\ e(r).key = NoKey /\ e(r).tries = row[r].tries
                      /\ f(r) \in Row /\ f(r).st = "unconfirmed" /\ f(r).key = row[r].key
                      /\ f(r).tries = row[r].tries
  BY NoKeyIsKey DEF Table, Row, RowStates
<1>2. /\ TakeOver(row) = [r \in Rows |-> CASE row[r].st = "claimed" -> e(r)
                                           [] row[r].st = "sent" -> f(r)
                                           [] OTHER -> row[r]]
  BY DEF TakeOver
<1> HIDE DEF e, f
<1>3. /\ TakeOver(row) \in Table
      /\ \A r \in Rows : /\ row[r].st = "claimed" => TakeOver(row)[r] = e(r)
                         /\ row[r].st = "sent" => TakeOver(row)[r] = f(r)
                         /\ row[r].st \notin {"claimed", "sent"} => TakeOver(row)[r] = row[r]
  BY <1>1, <1>2 DEF Table
<1> QED BY <1>1, <1>3

-----------------------------------------------------------------------------
(* Types.                                                                  *)

Event == [m : {"accepted", "dropped", "ended"}, keys : SUBSET Keys]
Report == [m : Kinds, keys : (SUBSET Keys) \ {{}}]

\* The data ...
Typed ==
  /\ row \in Table
  /\ incs \in Nat /\ inc \in 0..incs /\ linked \in 0..incs
  /\ gate \in Seq(Keys) /\ unstarted \in SUBSET Keys
  /\ stopping \in [at : {"idle", "asked", "answered"}, keys : SUBSET Keys, taken : SUBSET Keys]
  /\ stopping.taken \subseteq stopping.keys
  /\ stdin \in SUBSET Keys /\ turn \in SUBSET Keys /\ events \in Seq(Event)
  /\ inbox \in Seq(Report) /\ awaiting \in SUBSET Keys
  /\ hand \in [key : Keys, gone : BOOLEAN]
  /\ heard \in [Rows -> SUBSET Keys] /\ written \in SUBSET Keys
  /\ blind \in SUBSET Rows /\ strayed \in SUBSET Rows

\* ... and the flags.
Flagged ==
  /\ ended \in BOOLEAN /\ backstop \in BOOLEAN /\ active \in BOOLEAN /\ output \in BOOLEAN
  /\ hold \in {"none", "stopped", "interrupted"} /\ alive \in BOOLEAN /\ busy \in BOOLEAN
  /\ at \in {"wait", "link", "push"} /\ spent \in 0..MaxSpent

LEMMA TypeParts == Typed /\ Flagged => TypeOK
<1> SUFFICES ASSUME Typed, Flagged PROVE TypeOK
  OBVIOUS
<1>1. \A r \in Rows : /\ row[r].st \in RowStates /\ row[r].key \in Keys
                      /\ row[r].tries \in Nat /\ row[r].rests \in BOOLEAN
  BY DEF Typed, Table, Row
<1>2. GateKeys \subseteq Keys
  BY ToSetType DEF Typed, GateKeys
<1>3. /\ \A i \in DOMAIN events : events[i].m \in {"accepted", "dropped", "ended"}
      /\ \A i \in DOMAIN inbox : inbox[i].m \in Kinds /\ inbox[i].keys # {}
  <2>1. \A i \in DOMAIN events : events[i] \in Event
    BY DEF Typed
  <2>2. \A i \in DOMAIN inbox : inbox[i] \in Report
    BY DEF Typed
  <2> QED BY <2>1, <2>2 DEF Event, Report
<1>4. hand.key \in Keys /\ stopping.at \in {"idle", "asked", "answered"}
  BY DEF Typed
<1> QED BY <1>1, <1>2, <1>3, <1>4 DEF TypeOK, Typed, Flagged

\* A report that is posted.
LEMMA PostIs ==
  ASSUME Typed, NEW m \in Kinds, NEW keys \in SUBSET Keys, Post(m, keys)
  PROVE  /\ inbox' \in Seq(Report)
         /\ keys = {} => inbox' = inbox
         /\ keys # {} => ToSet(inbox') = ToSet(inbox) \cup {Msg(m, keys)}
<1>1. CASE keys = {}
  BY <1>1 DEF Post, Typed
<1>2. CASE keys # {}
  <2>1. Msg(m, keys) \in Report /\ inbox' = Append(inbox, Msg(m, keys))
    BY <1>2 DEF Post, Msg, Report
  <2> QED BY <1>2, <2>1, ToSetAppend DEF Typed
<1> QED BY <1>1, <1>2

\* Typed in three parts, so that a step shows only what it touches.
TableTyped == row \in Table /\ awaiting \in SUBSET Keys /\ hand \in [key : Keys, gone : BOOLEAN]
BoundTyped == incs \in Nat /\ inc \in 0..incs /\ linked \in 0..incs
LinesTyped ==
  /\ gate \in Seq(Keys) /\ unstarted \in SUBSET Keys
  /\ stopping \in [at : {"idle", "asked", "answered"}, keys : SUBSET Keys, taken : SUBSET Keys]
  /\ stopping.taken \subseteq stopping.keys
  /\ stdin \in SUBSET Keys /\ turn \in SUBSET Keys /\ events \in Seq(Event)
  /\ inbox \in Seq(Report)
PastTyped ==
  /\ heard \in [Rows -> SUBSET Keys] /\ written \in SUBSET Keys
  /\ blind \in SUBSET Rows /\ strayed \in SUBSET Rows

LEMMA DataParts == Typed <=> TableTyped /\ BoundTyped /\ LinesTyped /\ PastTyped
BY DEF Typed, TableTyped, BoundTyped, LinesTyped, PastTyped

LEMMA ReapedTyped ==
  ASSUME LinesTyped
  PROVE  /\ Reaped \in [at : {"idle", "asked", "answered"}, keys : SUBSET Keys, taken : SUBSET Keys]
         /\ Reaped.keys = stopping.keys /\ Reaped.taken = stopping.taken
BY DEF LinesTyped, Reaped

LEMMA NoStopTyped ==
  /\ NoStop \in [at : {"idle", "asked", "answered"}, keys : SUBSET Keys, taken : SUBSET Keys]
  /\ NoStop.taken = {} /\ NoStop.keys = {}
BY DEF NoStop

LEMMA NoHandTyped == NoHand \in [key : Keys, gone : BOOLEAN] /\ NoHand.key = NoKey /\ NoHand.gone = FALSE
BY NoKeyIsKey DEF NoHand

LEMMA TableStaysTyped == ASSUME Typed, [Next]_vars PROVE TableTyped'
<1> USE DEF Typed, TableTyped
<1>1. ASSUME NEW r \in Rows, Record(r) PROVE TableTyped'
  <2>1. row' = [row EXCEPT ![r].st = "pending"]
    BY <1>1 DEF Record, Push
  <2>2. [row[r] EXCEPT !.st = "pending"] \in Row
    BY DEF Table, Row, RowStates
  <2>3. row' \in Table
    BY <2>1, <2>2 DEF Table
  <2> QED BY <1>1, <2>3 DEF Record, drainVars
<1>2. ASSUME NEW r \in Rows, BackoffOver(r) PROVE TableTyped'
  <2>1. row' = [row EXCEPT ![r].rests = FALSE]
    BY <1>2 DEF BackoffOver
  <2>2. [row[r] EXCEPT !.rests = FALSE] \in Row
    BY DEF Table, Row
  <2>3. row' \in Table
    BY <2>1, <2>2 DEF Table
  <2> QED BY <1>2, <2>3 DEF BackoffOver, drainVars
<1>3. CASE Restart
  <2>1. row' \in Table /\ hand' = NoHand /\ awaiting' = {}
    BY <1>3, TakeOverRows DEF Restart
  <2> QED BY <2>1, NoHandTyped
<1>4. CASE Handle
  <2>1. Head(inbox) \in Report
    BY <1>4, ToSetTail DEF Handle
  <2> DEFINE m == Head(inbox).m
             keys == Head(inbox).keys
  <2>2. m \in Kinds /\ keys \in SUBSET Keys
    BY <2>1 DEF Report
  <2>3. LetGo(Settled(m, keys)) /\ awaiting' = Watched(m, keys) /\ hand' = hand
    BY <1>4 DEF Handle
  <2> HIDE DEF m, keys
  <2>4. row' \in Table
    BY <2>2, <2>3, SettledRows, LetGoRows
  <2>5. awaiting' \subseteq awaiting \cup {row[r].key : r \in Rows}
    BY <2>3 DEF Watched, Under, In
  <2>6. \A r \in Rows : row[r].key \in Keys
    BY DEF Table, Row
  <2> QED BY <2>3, <2>4, <2>5, <2>6
<1>5. CASE Tick
  BY <1>5, LetGoRows DEF Tick
<1>6. ASSUME NEW k \in awaiting, Lapse(k) PROVE TableTyped'
  <2>1. row' \in Table
    BY <1>6, SetRows DEF Lapse, MarkUnconfirmed, RowStates
  <2> QED BY <1>6, <2>1 DEF Lapse
<1>7. CASE Drain
  <2>1. row' \in Table /\ hand'.key \in Keys /\ awaiting' = awaiting
    BY <1>7, DrainRows DEF Drain
  <2>2. \E k : hand' = [key |-> k, gone |-> FALSE]
    BY <1>7 DEF Drain
  <2> QED BY <2>1, <2>2
<1>8. CASE Settle
  <2>1. row' \in Table
    BY <1>8, SetRows DEF Settle, SettleUndeliverable, RowStates
  <2> QED BY <1>8, <2>1 DEF Settle
<1>9. CASE HandOver
  BY <1>9, NoHandTyped DEF HandOver
<1>10. CASE TabClose
  <2>1. hand' \in {hand, [hand EXCEPT !.gone = TRUE]} /\ row' = row /\ awaiting' = awaiting
    BY <1>10 DEF TabClose
  <2> QED BY <2>1
<1>11. CASE UNCHANGED vars \/ End \/ Flush \/ SteerLine \/ UserSend \/ Output \/ TakeEvent \/ GiveUp \/ Stop
  BY <1>11 DEF vars, End, Flush, SteerLine, UserSend, Output, TakeEvent, GiveUp, Stop, drainVars
<1>12. CASE TakeBack \/ StopReply \/ (\E k \in stdin : Begin(k)) \/ Finish \/ Exit
  BY <1>12 DEF TakeBack, StopReply, Begin, Finish, Exit, drainVars
<1>13. CASE Disconnect \/ Bind \/ Respawn \/ LinkInFlight
  BY <1>13 DEF Disconnect, Bind, Respawn, LinkInFlight, drainVars
<1> QED BY <1>1, <1>2, <1>3, <1>4, <1>5, <1>6, <1>7, <1>8, <1>9, <1>10, <1>11, <1>12, <1>13
        DEF Next, View, User, Drainer

LEMMA BoundStaysTyped == ASSUME Typed, [Next]_vars PROVE BoundTyped'
<1> USE DEF Typed, BoundTyped
<1>1. CASE UserSend
  <2>1. /\ inc' = (IF inc # 0 THEN inc ELSE incs + 1) /\ incs' = (IF inc # 0 THEN incs ELSE incs + 1)
        /\ linked' = linked
    BY <1>1 DEF UserSend, Bound, drainVars
  <2> QED BY <2>1
<1>2. CASE Disconnect \/ TabClose
  BY <1>2 DEF Disconnect, TabClose, Unbind, drainVars
<1>3. CASE Bind \/ Restart
  BY <1>3 DEF Bind, Restart, drainVars
<1>4. CASE Handle \/ Tick
  BY <1>4 DEF Handle, Tick, LetGo
<1>5. CASE LinkInFlight \/ Drain
  BY <1>5 DEF LinkInFlight, Drain, Link
<1>6. CASE UNCHANGED vars \/ (\E r \in Rows : Record(r) \/ BackoffOver(r)) \/ End \/ Flush \/ SteerLine
  BY <1>6 DEF vars, Record, BackoffOver, End, Flush, SteerLine, drainVars
<1>7. CASE Output \/ TakeEvent \/ GiveUp \/ Stop \/ TakeBack \/ StopReply \/ (\E k \in stdin : Begin(k))
  BY <1>7 DEF Output, TakeEvent, GiveUp, Stop, TakeBack, StopReply, Begin, drainVars
<1>8. CASE Finish \/ Exit \/ Respawn \/ (\E k \in awaiting : Lapse(k)) \/ Settle \/ HandOver
  BY <1>8 DEF Finish, Exit, Respawn, Lapse, Settle, HandOver, drainVars
<1> QED BY <1>1, <1>2, <1>3, <1>4, <1>5, <1>6, <1>7, <1>8 DEF Next, View, User, Drainer

LEMMA PastStaysTyped == ASSUME Typed, [Next]_vars PROVE PastTyped'
<1> USE DEF Typed, PastTyped
<1>1. ASSUME gate # <<>> PROVE Head(gate) \in Keys
  BY <1>1, ToSetTail
<1>2. CASE Flush \/ SteerLine
  BY <1>1, <1>2 DEF Flush, SteerLine, Written
<1>3. CASE UserSend
  <2>1. /\ written' = written \/ (gate # <<>> /\ written' = written \cup {Head(gate)})
        /\ UNCHANGED <<heard, blind, strayed>>
    BY <1>3 DEF UserSend
  <2> QED BY <1>1, <2>1
<1>4. CASE GiveUp
  <2>1. blind' \subseteq blind \cup Rows /\ UNCHANGED <<heard, written, strayed>>
    BY <1>4 DEF GiveUp, Under
  <2> QED BY <2>1
<1>5. ASSUME NEW k \in stdin, Begin(k) PROVE PastTyped'
  <2>1. /\ heard' = [r \in Rows |-> IF \E pair \in k : pair[1] = r THEN heard[r] \cup {k} ELSE heard[r]]
        /\ UNCHANGED <<written, blind, strayed>>
    BY <1>5 DEF Begin
  <2>2. \A r \in Rows : heard[r] \cup {k} \in SUBSET Keys /\ heard[r] \in SUBSET Keys
    OBVIOUS
  <2> QED BY <2>1, <2>2
<1>6. CASE Restart
  <2>1. blind' \subseteq blind \cup Rows /\ written' = {} /\ UNCHANGED <<heard, strayed>>
    BY <1>6 DEF Restart, In
  <2> QED BY <2>1
<1>7. CASE Handle
  <2>1. Head(inbox).m \in Kinds
    <3>1. Head(inbox) \in Report
      BY <1>7, ToSetTail DEF Handle
    <3> QED BY <3>1 DEF Report
  <2>2. blind' \subseteq blind \cup Rows
    BY <1>7, <2>1, SettledRows, LetGoRows DEF Handle
  <2> QED BY <1>7, <2>2 DEF Handle
<1>8. CASE Tick
  <2>1. blind' \subseteq blind \cup Rows
    BY <1>8, LetGoRows DEF Tick
  <2> QED BY <1>8, <2>1 DEF Tick
<1>9. CASE LinkInFlight \/ Drain
  <2>1. strayed' \subseteq strayed \cup Rows /\ UNCHANGED <<heard, written, blind>>
    BY <1>9 DEF LinkInFlight, Drain, Link, In
  <2> QED BY <2>1
<1>10. CASE UNCHANGED vars \/ (\E r \in Rows : Record(r) \/ BackoffOver(r)) \/ End
  BY <1>10 DEF vars, Record, BackoffOver, End, history
<1>11. CASE Output \/ TakeEvent \/ Stop \/ TakeBack \/ StopReply
  BY <1>11 DEF Output, TakeEvent, Stop, TakeBack, StopReply, history
<1>12. CASE Finish \/ Exit \/ Respawn \/ (\E k \in awaiting : Lapse(k)) \/ Settle \/ HandOver
  BY <1>12 DEF Finish, Exit, Respawn, Lapse, Settle, HandOver, history
<1>13. CASE Disconnect \/ TabClose \/ Bind
  BY <1>13 DEF Disconnect, TabClose, Bind, history
<1> QED BY <1>2, <1>3, <1>4, <1>5, <1>6, <1>7, <1>8, <1>9, <1>10, <1>11, <1>12, <1>13
        DEF Next, View, User, Drainer

\* A report posted, or not, or left unsaid.
LEMMA IngestIs ==
  ASSUME Typed, NEW m \in Kinds, NEW keys \in SUBSET Keys, Ingest(m, keys)
  PROVE  inbox' \in Seq(Report) /\ ToSet(inbox') \subseteq ToSet(inbox) \cup {Msg(m, keys)}
<1>1. inbox \in Seq(Report)
  BY DEF Typed
<1> QED BY <1>1, PostIs DEF Ingest

\* What WritingOf says of the line under key k.
LEMMA WrittenIs ==
  ASSUME Typed, NEW k \in Keys, Written(k)
  PROVE  /\ inbox' \in Seq(Report) /\ stdin' \in SUBSET Keys
         /\ \/ /\ alive /\ stdin' = stdin \cup {k} /\ written' = written \cup {k}
               /\ again' = again \cup ({k} \cap written)
               /\ ToSet(inbox') = ToSet(inbox) \cup {Msg("written", {k})}
            \/ /\ ~alive /\ UNCHANGED <<stdin, written, again>>
               /\ ToSet(inbox') = ToSet(inbox) \cup {Msg("failed", {k})}
<1>1. {k} \in SUBSET Keys /\ {k} # {} /\ "written" \in Kinds /\ "failed" \in Kinds
  BY DEF Kinds
<1>2. stdin \cup {k} \in SUBSET Keys /\ stdin \in SUBSET Keys
  BY DEF Typed
<1>3. Post("written", {k}) => inbox' \in Seq(Report) /\ ToSet(inbox') = ToSet(inbox) \cup {Msg("written", {k})}
  BY <1>1, PostIs
<1>4. Post("failed", {k}) => inbox' \in Seq(Report) /\ ToSet(inbox') = ToSet(inbox) \cup {Msg("failed", {k})}
  BY <1>1, PostIs
<1> QED BY <1>2, <1>3, <1>4 DEF Written

\* A Stop's answer adds to the events what the CLI dropped, and the turn's end.
LEMMA TakeBackIs ==
  ASSUME Typed, TakeBack
  PROVE  \E gone \in SUBSET (stopping.keys \cap stdin), said \in SUBSET Keys :
           /\ said \subseteq gone /\ stdin' = stdin \ gone
           /\ stopping' = [stopping EXCEPT !.at = "answered", !.taken = said]
           /\ events' \in Seq(Event)
           /\ ToSet(events') \subseteq ToSet(events) \cup {Msg("dropped", gone \ said), Msg("ended", {})}
<1>1. PICK gone \in SUBSET (stopping.keys \cap stdin) : \E said \in SUBSET gone :
        /\ stdin' = stdin \ gone
        /\ stopping' = [stopping EXCEPT !.at = "answered", !.taken = said]
        /\ events' = events \o (IF gone = said THEN <<>> ELSE <<Msg("dropped", gone \ said)>>)
                            \o (IF busy THEN <<Msg("ended", {})>> ELSE <<>>)
  BY DEF TakeBack
<1>2. PICK said \in SUBSET gone :
        /\ stdin' = stdin \ gone
        /\ stopping' = [stopping EXCEPT !.at = "answered", !.taken = said]
        /\ events' = events \o (IF gone = said THEN <<>> ELSE <<Msg("dropped", gone \ said)>>)
                            \o (IF busy THEN <<Msg("ended", {})>> ELSE <<>>)
  BY <1>1
<1> DEFINE d == IF gone = said THEN <<>> ELSE <<Msg("dropped", gone \ said)>>
           e == IF busy THEN <<Msg("ended", {})>> ELSE <<>>
<1>3. gone \in SUBSET Keys /\ said \in SUBSET Keys
  BY DEF Typed
<1>4. Msg("dropped", gone \ said) \in Event /\ Msg("ended", {}) \in Event
  BY <1>3 DEF Msg, Event
<1>5. d \in Seq(Event) /\ ToSet(d) \subseteq {Msg("dropped", gone \ said)}
  BY <1>4, ToSetSmall
<1>6. e \in Seq(Event) /\ ToSet(e) \subseteq {Msg("ended", {})}
  BY <1>4, ToSetSmall
<1>7. events' = (events \o d) \o e
  BY <1>2
<1> HIDE DEF d, e
<1>8. events \in Seq(Event)
  BY DEF Typed
<1>9. events \o d \in Seq(Event) /\ ToSet(events \o d) = ToSet(events) \cup ToSet(d)
  BY <1>5, <1>8, ToSetConcat
<1>10. ASSUME NEW f \in Seq(Event) PROVE f \o e \in Seq(Event) /\ ToSet(f \o e) = ToSet(f) \cup ToSet(e)
  BY <1>6, ToSetConcat
<1>11. events' \in Seq(Event) /\ ToSet(events') = ToSet(events \o d) \cup ToSet(e)
  BY <1>7, <1>9, <1>10
<1> QED BY <1>2, <1>3, <1>5, <1>6, <1>9, <1>11

LEMMA LinesStayTyped == ASSUME Typed, [Next]_vars PROVE LinesTyped'
<1> USE DEF LinesTyped
<1>0. LinesTyped
  BY DataParts
<1>1. ASSUME gate # <<>> PROVE Head(gate) \in Keys /\ Tail(gate) \in Seq(Keys)
  BY <1>0, <1>1, ToSetTail
<1>2. ASSUME Post("failed", unstarted) \/ Post("taken", stopping.keys) \/ Post("taken", stopping.taken)
      PROVE  inbox' \in Seq(Report)
  <2>1. stopping.taken \in SUBSET Keys /\ stopping.keys \in SUBSET Keys
    BY <1>0
  <2> QED BY <1>0, <1>2, <2>1, PostIs DEF Kinds
<1>3. CASE Flush \/ SteerLine
  <2>1. /\ gate # <<>> /\ Written(Head(gate)) /\ gate' = Tail(gate)
        /\ unstarted' \in {unstarted, unstarted \cup {Head(gate)}}
        /\ UNCHANGED <<stopping, turn, events>>
    BY <1>3 DEF Flush, SteerLine
  <2>2. inbox' \in Seq(Report) /\ stdin' \in SUBSET Keys
    BY <1>1, <2>1, WrittenIs
  <2> QED BY <1>0, <1>1, <2>1, <2>2
<1>4. CASE UserSend
  <2> DEFINE fresh == hold = "interrupted"
             held == hold # "none" /\ gate # <<>>
             k == Head(gate)
  <2>1. /\ stdin' = (IF fresh THEN {} ELSE stdin) \cup (IF held /\ alive' THEN {k} ELSE {})
        /\ turn' = (IF fresh THEN {} ELSE turn)
        /\ events' = (IF fresh THEN <<>> ELSE events)
        /\ stopping' = (IF fresh THEN Reaped ELSE stopping)
        /\ gate' = (IF held THEN Tail(gate) ELSE gate)
        /\ (IF held THEN Post(IF alive' THEN "written" ELSE "failed", {k}) ELSE inbox' = inbox)
        /\ unstarted' = unstarted
    BY <1>4 DEF UserSend
  <2>2. inbox' \in Seq(Report)
    <3>1. held => {k} \in SUBSET Keys
      BY <1>1
    <3>2. (IF alive' THEN "written" ELSE "failed") \in Kinds
      BY DEF Kinds
    <3> HIDE DEF k
    <3> QED BY <1>0, <2>1, <3>1, <3>2, PostIs
  <2>3. <<>> \in Seq(Event)
    BY ToSetSmall
  <2> QED BY <1>0, <1>1, <2>1, <2>2, <2>3, ReapedTyped
<1>5. CASE TakeEvent
  <2>1. events # <<>> /\ events' = Tail(events) /\ unstarted' = unstarted \ Head(events).keys
        /\ UNCHANGED <<gate, stopping, stdin, turn>>
    BY <1>5 DEF TakeEvent
  <2>2. Tail(events) \in Seq(Event) /\ Head(events) \in Event
    BY <1>0, <2>1, ToSetTail
  <2>3. Head(events).keys \in SUBSET Keys
    BY <2>2 DEF Event
  <2>4. \E m \in {"accepted", "dropped", "delivered"} : Ingest(m, Head(events).keys)
    BY <1>5 DEF TakeEvent
  <2>5. inbox' \in Seq(Report)
    BY <2>3, <2>4, IngestIs DEF Kinds
  <2> QED BY <1>0, <2>1, <2>2, <2>5
<1>6. CASE GiveUp
  <2>1. inbox' = inbox \/ Post("failed", unstarted)
    BY <1>6 DEF GiveUp
  <2>2. unstarted' \in {unstarted, {}} /\ UNCHANGED <<gate, stopping, stdin, turn, events>>
    BY <1>6 DEF GiveUp, cliVars
  <2> QED BY <1>0, <1>2, <2>1, <2>2
<1>7. CASE Stop
  <2>1. /\ stopping' = [at |-> "asked", keys |-> unstarted, taken |-> {}] /\ unstarted' = {}
        /\ UNCHANGED <<gate, stdin, turn, events, inbox>>
    BY <1>7 DEF Stop, cliVars
  <2>2. /\ stopping' \in [at : {"idle", "asked", "answered"}, keys : SUBSET Keys, taken : SUBSET Keys]
        /\ stopping'.taken \subseteq stopping'.keys
    BY <1>0, <2>1
  <2> QED BY <1>0, <2>1, <2>2
<1>8. CASE TakeBack
  <2>1. PICK gone \in SUBSET (stopping.keys \cap stdin), said \in SUBSET Keys :
           /\ said \subseteq gone /\ stdin' = stdin \ gone
           /\ stopping' = [stopping EXCEPT !.at = "answered", !.taken = said]
           /\ events' \in Seq(Event)
    BY <1>8, TakeBackIs
  <2>2. /\ stopping' \in [at : {"idle", "asked", "answered"}, keys : SUBSET Keys, taken : SUBSET Keys]
        /\ stopping'.taken \subseteq stopping'.keys
    BY <1>0, <2>1
  <2>3. turn' = {} /\ UNCHANGED <<gate, unstarted, inbox>>
    BY <1>8 DEF TakeBack
  <2> QED BY <1>0, <2>1, <2>2, <2>3
<1>9. CASE StopReply
  <2>1. /\ stopping' = NoStop /\ unstarted' = unstarted \cup (stopping.keys \ stopping.taken)
        /\ Post("taken", stopping.taken) /\ UNCHANGED <<gate, stdin, turn, events>>
    BY <1>9 DEF StopReply, cliVars
  <2> QED BY <1>0, <1>2, <2>1, NoStopTyped
<1>10. ASSUME NEW k \in stdin, Begin(k) PROVE LinesTyped'
  <2>1. k \in Keys
    BY <1>0
  <2>2. Msg("accepted", {k}) \in Event
    BY <2>1 DEF Msg, Event
  <2>3. events' \in Seq(Event)
    BY <1>0, <1>10, <2>2, ToSetAppend DEF Begin
  <2> QED BY <1>0, <1>10, <2>1, <2>3 DEF Begin, gateVars
<1>11. CASE Finish
  <2>1. Msg("ended", turn) \in Event
    BY <1>0 DEF Msg, Event
  <2>2. events' \in Seq(Event)
    BY <1>0, <1>11, <2>1, ToSetAppend DEF Finish
  <2> QED BY <1>0, <1>11, <2>2 DEF Finish, gateVars
<1>12. CASE Exit \/ Respawn
  <2>1. /\ stdin' = {} /\ turn' = {} /\ stopping' = Reaped /\ (events' = events \/ events' = <<>>)
        /\ UNCHANGED <<gate, unstarted, inbox>>
    BY <1>12 DEF Exit, Respawn
  <2> QED BY <1>0, <2>1, ReapedTyped, ToSetSmall
<1>13. CASE Disconnect
  <2>1. gate' = <<>> /\ unstarted' = {} /\ UNCHANGED <<stopping, stdin, turn, events, inbox>>
    BY <1>13 DEF Disconnect, Unbind, cliVars
  <2> QED BY <1>0, <2>1, ToSetSmall
<1>14. CASE TabClose \/ Restart
  <2>1. /\ gate' = <<>> /\ unstarted' = {} /\ stopping' = NoStop /\ stdin' = {} /\ turn' = {} /\ events' = <<>>
        /\ inbox' \in {inbox, <<>>}
    BY <1>14 DEF TabClose, Restart, Unbind
  <2>2. <<>> \in Seq(Keys) /\ <<>> \in Seq(Event) /\ <<>> \in Seq(Report)
    BY ToSetSmall
  <2> QED BY <1>0, <2>1, <2>2, NoStopTyped
<1>15. CASE Handle
  <2>1. inbox' = Tail(inbox) /\ inbox # <<>> /\ UNCHANGED <<gateVars, cliVars>>
    BY <1>15 DEF Handle
  <2> QED BY <1>0, <2>1, ToSetTail DEF gateVars, cliVars
<1>16. CASE Drain
  <2>1. gate' = <<>> /\ UNCHANGED <<unstarted, stopping, stdin, turn, events, inbox>>
    BY <1>16 DEF Drain, cliVars
  <2> QED BY <1>0, <2>1, ToSetSmall
<1>17. CASE HandOver
  <2>1. gate' \in {gate, Append(gate, hand.key)} /\ UNCHANGED <<unstarted, stopping, stdin, turn, events, inbox>>
    BY <1>17 DEF HandOver, cliVars
  <2>2. hand.key \in Keys
    BY DEF Typed
  <2>3. Append(gate, hand.key) \in Seq(Keys)
    BY <1>0, <2>2, ToSetAppend
  <2> QED BY <1>0, <2>1, <2>3
<1>18. CASE UNCHANGED vars \/ (\E r \in Rows : Record(r) \/ BackoffOver(r)) \/ End \/ Output
  BY <1>0, <1>18 DEF vars, Record, BackoffOver, End, Output, gateVars, cliVars
<1>19. CASE Bind \/ Tick \/ (\E k \in awaiting : Lapse(k)) \/ LinkInFlight \/ Settle
  BY <1>0, <1>19 DEF Bind, Tick, Lapse, LinkInFlight, Settle, gateVars, cliVars
<1> QED BY <1>3, <1>4, <1>5, <1>6, <1>7, <1>8, <1>9, <1>10, <1>11, <1>12, <1>13, <1>14, <1>15, <1>16, <1>17,
           <1>18, <1>19 DEF Next, View, User, Drainer

LEMMA FlagsStay == ASSUME Flagged, [Next]_vars PROVE Flagged'
<1> USE DEF Flagged
<1>0. spent' = spent \/ Spend => spent' \in 0..MaxSpent
  BY DeliveryAssumption DEF Spend
<1> DEFINE Rest == spent' = spent \/ Spend
<1>1. ASSUME NEW r \in Rows, Record(r) \/ BackoffOver(r) PROVE Flagged'
  BY <1>1 DEF Record, BackoffOver, gateVars, viewVars, cliVars, drainVars
<1>2. CASE End
  BY <1>0, <1>2 DEF End, gateVars, viewVars, cliVars, drainVars
<1>3. CASE Flush
  <2>1. Rest
    BY <1>3 DEF Flush, Written
  <2> QED BY <1>0, <1>3, <2>1 DEF Flush, drainVars
<1>4. CASE SteerLine
  <2>1. Rest
    BY <1>4 DEF SteerLine, Written
  <2> QED BY <1>0, <1>4, <2>1 DEF SteerLine, drainVars
<1>5. CASE UserSend
  <2>1. /\ hold' = "none" /\ active' = TRUE /\ output' = FALSE /\ alive' \in BOOLEAN /\ busy' \in BOOLEAN
        /\ ended' = ended /\ backstop' = backstop /\ at' = at /\ Rest
    BY <1>5 DEF UserSend, drainVars
  <2> QED BY <1>0, <2>1
<1>6. CASE Output
  BY <1>6 DEF Output, gateVars, cliVars, drainVars
<1>7. CASE TakeEvent
  <2>1. /\ ended' = ended /\ output' = output /\ hold' = hold /\ alive' = alive /\ busy' = busy /\ at' = at
        /\ active' \in BOOLEAN /\ backstop' \in BOOLEAN
    BY <1>7 DEF TakeEvent, drainVars
  <2>2. Rest
    BY <1>7 DEF TakeEvent, Ingest
  <2> QED BY <1>0, <2>1, <2>2
<1>8. CASE GiveUp
  <2>1. Rest
    BY <1>8 DEF GiveUp
  <2> QED BY <1>0, <1>8, <2>1 DEF GiveUp, viewVars, cliVars, drainVars
<1>9. CASE Stop
  BY <1>0, <1>9 DEF Stop, cliVars, drainVars
<1>10. CASE TakeBack
  BY <1>10 DEF TakeBack, viewVars, drainVars
<1>11. CASE StopReply
  BY <1>11 DEF StopReply, viewVars, cliVars, drainVars
<1>12. ASSUME NEW k \in stdin, Begin(k) PROVE Flagged'
  BY <1>12 DEF Begin, gateVars, viewVars, drainVars
<1>13. CASE Finish
  BY <1>13 DEF Finish, gateVars, viewVars, drainVars
<1>14. CASE Exit
  BY <1>0, <1>14 DEF Exit, viewVars, drainVars
<1>15. CASE Disconnect
  BY <1>15 DEF Disconnect, Unbind, cliVars, drainVars
<1>16. CASE TabClose
  BY <1>0, <1>16 DEF TabClose, Unbind
<1>17. CASE Bind
  BY <1>17 DEF Bind, gateVars, drainVars
<1>18. CASE Respawn
  BY <1>0, <1>18 DEF Respawn, drainVars
<1>19. CASE Restart
  BY <1>0, <1>19 DEF Restart
<1>20. CASE Handle \/ Tick \/ LinkInFlight
  BY <1>20 DEF Handle, Tick, LinkInFlight, gateVars, viewVars, cliVars
<1>21. CASE Drain \/ Settle \/ HandOver \/ (\E k \in awaiting : Lapse(k))
  BY <1>21 DEF Drain, Settle, HandOver, Lapse, gateVars, viewVars, cliVars
<1>22. CASE UNCHANGED vars
  BY <1>22 DEF vars, gateVars, viewVars, cliVars, drainVars
<1> QED BY <1>1, <1>2, <1>3, <1>4, <1>5, <1>6, <1>7, <1>8, <1>9, <1>10, <1>11, <1>12, <1>13, <1>14, <1>15, <1>16,
           <1>17, <1>18, <1>19, <1>20, <1>21, <1>22 DEF Next, View, User, Drainer

LEMMA InitTyped == Init => Typed /\ Flagged
<1> SUFFICES ASSUME Init PROVE Typed /\ Flagged
  OBVIOUS
<1>1. NoRow \in Row
  BY NoKeyIsKey DEF NoRow, Row, RowStates
<1>2. row \in Table
  BY <1>1 DEF Init, Table
<1>3. gate \in Seq(Keys) /\ events \in Seq(Event) /\ inbox \in Seq(Report)
  BY ToSetSmall DEF Init
<1>4. spent \in 0..MaxSpent
  BY DeliveryAssumption DEF Init
<1>5. Flagged
  BY <1>4 DEF Init, Flagged
<1>6. TableTyped
  BY <1>2, NoHandTyped DEF Init, TableTyped
<1>7. LinesTyped
  BY <1>3, NoStopTyped DEF Init, LinesTyped
<1>8. BoundTyped /\ PastTyped
  BY DEF Init, BoundTyped, PastTyped
<1> QED BY <1>5, <1>6, <1>7, <1>8, DataParts

LEMMA StaysTyped == ASSUME Typed, [Next]_vars PROVE Typed'
<1>1. TableTyped' /\ BoundTyped' /\ LinesTyped' /\ PastTyped'
  BY TableStaysTyped, BoundStaysTyped, LinesStayTyped, PastStaysTyped
<1> QED BY <1>1 DEF Typed, TableTyped, BoundTyped, LinesTyped, PastTyped

\* What every variable holds in a reachable state.
LEMMA AlwaysTyped == Spec => [](Typed /\ Flagged)
<1>1. Typed /\ Flagged /\ [Next]_vars => Typed' /\ Flagged'
  BY StaysTyped, FlagsStay
<1> QED BY InitTyped, <1>1, PTL DEF Spec

\* Every variable keeps its type, for any number of events and of faults.
THEOREM TypeCorrect == Spec => []TypeOK
BY AlwaysTyped, TypeParts, PTL

-----------------------------------------------------------------------------
(* What becomes of a row.                                                  *)

LEMMA FateSteps ==
  ASSUME Typed, [Next]_vars, NEW r \in Rows
  PROVE  MayBecome(row[r].st, row'[r].st)
<1> USE DEF MayBecome
<1>0. row \in Table /\ row[r] \in Row
  BY DEF Typed, Table
<1>1. CASE row'[r] = row[r]
  BY <1>1
<1>2. ASSUME NEW s \in Rows, Record(s) PROVE MayBecome(row[r].st, row'[r].st)
  BY <1>0, <1>2 DEF Record, Push, Table, Row
<1>3. ASSUME NEW s \in Rows, BackoffOver(s) PROVE MayBecome(row[r].st, row'[r].st)
  BY <1>0, <1>3 DEF BackoffOver, Table, Row
<1>4. CASE Restart
  BY <1>0, <1>4, TakeOverRows DEF Restart
<1>5. CASE Handle
  <2>1. Head(inbox) \in Report
    BY <1>5, ToSetTail DEF Handle, Typed
  <2>2. Head(inbox).m \in Kinds
    BY <2>1 DEF Report
  <2> DEFINE t == Settled(Head(inbox).m, Head(inbox).keys)
  <2>3. t \in Table /\ MayBecome(row[r].st, t[r].st)
    BY <1>0, <2>2, SettledRows
  <2>4. LetGo(t)
    BY <1>5 DEF Handle
  <2> HIDE DEF t
  <2>5. row'[r].st # t[r].st => t[r].st \in {"claimed", "sent"}
    BY <2>3, <2>4, LetGoRows
  <2> QED BY <2>3, <2>5
<1>6. CASE Tick
  <2>1. row'[r].st # row[r].st => row[r].st \in {"claimed", "sent"}
    BY <1>0, <1>6, LetGoRows DEF Tick
  <2> QED BY <2>1
<1>7. ASSUME NEW k \in awaiting, Lapse(k) PROVE MayBecome(row[r].st, row'[r].st)
  <2> DEFINE rows == Under(row, {k}) \cap In(row, {"sent"})
  <2>1. r \in rows => row[r].st = "sent"
    BY DEF In
  <2>2. row' = Set(row, rows, "unconfirmed")
    BY <1>7 DEF Lapse, MarkUnconfirmed
  <2> HIDE DEF rows
  <2> QED BY <1>0, <2>1, <2>2, SetRows DEF RowStates
<1>8. CASE Drain
  BY <1>0, <1>8, DrainRows DEF Claims, Returns
<1>9. CASE Settle
  <2> DEFINE rows == In(row, {"pending", "claimed"})
  <2>1. r \in rows => row[r].st \in {"pending", "claimed"}
    BY DEF In
  <2>2. row' = Set(row, rows, "undeliverable")
    BY <1>9 DEF Settle, SettleUndeliverable
  <2> HIDE DEF rows
  <2> QED BY <1>0, <2>1, <2>2, SetRows DEF RowStates
<1>10. CASE UNCHANGED vars \/ End \/ Flush \/ SteerLine \/ UserSend \/ Output \/ TakeEvent \/ GiveUp \/ Stop
  BY <1>1, <1>10 DEF vars, End, Flush, SteerLine, UserSend, Output, TakeEvent, GiveUp, Stop
<1>11. CASE TakeBack \/ StopReply \/ (\E k \in stdin : Begin(k)) \/ Finish \/ Exit
  BY <1>1, <1>11 DEF TakeBack, StopReply, Begin, Finish, Exit
<1>12. CASE Disconnect \/ TabClose \/ Bind \/ Respawn \/ LinkInFlight \/ HandOver
  BY <1>1, <1>12 DEF Disconnect, TabClose, Bind, Respawn, LinkInFlight, HandOver
<1> QED BY <1>2, <1>3, <1>4, <1>5, <1>6, <1>7, <1>8, <1>9, <1>10, <1>11, <1>12 DEF Next, View, User, Drainer

\* An event the agent took, or whose line is of doubtful fate, is never owed
\* again: no UPDATE of the table leads back from there.
THEOREM FateStays == Spec => FateIsFinal
<1> DEFINE A == \A r \in Rows : row[r].st \in DOMAIN Fate => row'[r].st \in Fate[row[r].st]
<1>1. Typed /\ [Next]_vars => [A]_vars
  <2> SUFFICES ASSUME Typed, [Next]_vars, NEW r \in Rows, row[r].st \in DOMAIN Fate
               PROVE  row'[r].st \in Fate[row[r].st]
    OBVIOUS
  <2>1. MayBecome(row[r].st, row'[r].st)
    BY FateSteps
  <2>2. row[r].st \in {"accepted", "delivered", "unconfirmed", "undeliverable"}
    BY DEF Fate
  <2> QED BY <2>1, <2>2 DEF MayBecome, Fate
<1>2. Spec => [](Typed)
  BY AlwaysTyped, PTL
<1> QED BY <1>1, <1>2, PTL DEF Spec, FateIsFinal

LEMMA WatchSteps ==
  ASSUME Typed, SentIsWatched, [Next]_vars
  PROVE  SentIsWatched'
<1> SUFFICES ASSUME NEW r \in Rows, row'[r].st = "sent" PROVE row'[r].key \in awaiting'
  BY DEF SentIsWatched
<1> DEFINE Goal == row'[r].key \in awaiting'
<1>0. /\ row \in Table /\ row[r] \in Row
      /\ row[r].st = "sent" => row[r].key \in awaiting
  BY DEF Typed, Table, SentIsWatched
<1>1. CASE row'[r] = row[r] /\ awaiting' = awaiting
  BY <1>0, <1>1
<1>2. ASSUME NEW s \in Rows, Record(s) PROVE Goal
  <2>1. row' = [row EXCEPT ![s].st = "pending"] /\ awaiting' = awaiting
    BY <1>2 DEF Record, Push, drainVars
  <2> QED BY <1>0, <2>1 DEF Table, Row
<1>3. ASSUME NEW s \in Rows, BackoffOver(s) PROVE Goal
  <2>1. row' = [row EXCEPT ![s].rests = FALSE] /\ awaiting' = awaiting
    BY <1>3 DEF BackoffOver, drainVars
  <2> QED BY <1>0, <2>1 DEF Table, Row
<1>4. CASE Restart
  <2>1. row' = TakeOver(row)
    BY <1>4 DEF Restart
  <2> QED BY <1>0, <2>1, TakeOverRows
<1>5. CASE Handle
  <2> DEFINE m == Head(inbox).m
             keys == Head(inbox).keys
             t == Settled(m, keys)
  <2>1. Head(inbox) \in Report
    BY <1>5, ToSetTail DEF Handle, Typed
  <2>2. m \in Kinds
    BY <2>1 DEF Report
  <2>3. LetGo(t) /\ awaiting' = Watched(m, keys)
    BY <1>5 DEF Handle
  <2>4. /\ t \in Table
        /\ Stays(row, t, r) \/ Returns(row, t, r)
        /\ t[r].st = "sent" => \/ row[r].st = "sent" /\ (m # "written" => row[r].key \notin keys)
                               \/ m = "written" /\ row[r].st = "claimed" /\ row[r].key \in keys
    BY <1>0, <2>2, SettledRows
  <2> HIDE DEF t
  <2>5. t[r].st = "sent" /\ row'[r].key = t[r].key
    BY <2>3, <2>4, LetGoRows DEF Stays, Returns
  <2>6. row'[r].key = row[r].key
    BY <2>4, <2>5 DEF Stays, Returns
  <2> HIDE DEF m, keys
  <2>7. m = "written" =>
          awaiting' = awaiting \cup {row[s].key : s \in Under(row, keys) \cap In(row, {"claimed"})}
    BY <2>3 DEF Watched
  <2>8. m # "written" => awaiting' = awaiting \ keys
    BY <2>3 DEF Watched
  <2>9. row[r].st = "claimed" /\ row[r].key \in keys => r \in Under(row, keys) \cap In(row, {"claimed"})
    BY DEF Under, In
  <2> QED BY <1>0, <2>4, <2>5, <2>6, <2>7, <2>8, <2>9
<1>6. CASE Tick
  <2>1. row[r].st = "sent" /\ row'[r].key = row[r].key
    BY <1>0, <1>6, LetGoRows DEF Tick, Stays, Returns
  <2> QED BY <1>0, <1>6, <2>1 DEF Tick
<1>7. ASSUME NEW k \in awaiting, Lapse(k) PROVE Goal
  <2> DEFINE rows == Under(row, {k}) \cap In(row, {"sent"})
  <2>1. r \in rows <=> row[r].key = k /\ row[r].st = "sent"
    BY DEF Under, In
  <2>2. row' = Set(row, rows, "unconfirmed") /\ awaiting' = awaiting \ {k}
    BY <1>7 DEF Lapse, MarkUnconfirmed
  <2> HIDE DEF rows
  <2>3. r \notin rows /\ row'[r] = row[r]
    BY <1>0, <2>2, SetRows DEF RowStates
  <2> QED BY <1>0, <2>1, <2>2, <2>3
<1>8. CASE Drain
  <2>1. row'[r] = row[r]
    BY <1>0, <1>8, DrainRows DEF Claims, Returns
  <2> QED BY <1>0, <1>8, <2>1 DEF Drain
<1>9. CASE Settle
  <2>1. row' = Set(row, In(row, {"pending", "claimed"}), "undeliverable")
    BY <1>9 DEF Settle, SettleUndeliverable
  <2>2. row'[r] = row[r]
    BY <1>0, <2>1, SetRows DEF RowStates
  <2> QED BY <1>0, <1>9, <2>2 DEF Settle
<1>10. CASE UNCHANGED vars \/ End \/ Flush \/ SteerLine \/ UserSend \/ Output \/ TakeEvent \/ GiveUp \/ Stop
  BY <1>1, <1>10 DEF vars, End, Flush, SteerLine, UserSend, Output, TakeEvent, GiveUp, Stop, drainVars
<1>11. CASE TakeBack \/ StopReply \/ (\E k \in stdin : Begin(k)) \/ Finish \/ Exit
  BY <1>1, <1>11 DEF TakeBack, StopReply, Begin, Finish, Exit, drainVars
<1>12. CASE Disconnect \/ TabClose \/ Bind \/ Respawn \/ LinkInFlight \/ HandOver
  BY <1>1, <1>12 DEF Disconnect, TabClose, Bind, Respawn, LinkInFlight, HandOver, drainVars
<1> QED BY <1>2, <1>3, <1>4, <1>5, <1>6, <1>7, <1>8, <1>9, <1>10, <1>11, <1>12 DEF Next, View, User, Drainer

\* A row is sent only while the window for its receipt runs: a written line of
\* which nothing more is heard becomes unconfirmed, it is not forgotten.
THEOREM SentRowsAreWatched == Spec => []SentIsWatched
<1>1. Init => SentIsWatched
  BY DEF Init, SentIsWatched, NoRow
<1>2. Typed /\ SentIsWatched /\ [Next]_vars => SentIsWatched'
  BY WatchSteps
<1>3. Spec => []Typed
  BY AlwaysTyped, PTL
<1> QED BY <1>1, <1>2, <1>3, PTL DEF Spec

-----------------------------------------------------------------------------
(* Where a key may be, and the kinds of step.                              *)

Told(k) == \E e \in ToSet(events) : k \in e.keys
Dropping(k) == \E e \in ToSet(events) : e.m = "dropped" /\ k \in e.keys
ToReturn(k) == \E m \in ToSet(inbox) : m.m \in Returning /\ k \in m.keys

\* The line is with the agent or the view, or an event speaks of it.
Carried(k) == k \in stdin \cup unstarted \cup stopping.keys \cup turn \/ Told(k)

\* The rows of the line will be owed again when the drainer hears of it.
Doomed(k) == k \in stopping.taken \/ Dropping(k) \/ ToReturn(k)

Present(k) == k \in written \/ k \in GateKeys \/ k = hand.key \/ Reported(k)

\* The rows of the line are put back blindly.
LeftBlind(k) == \A r \in Rows : row[r].key = k /\ row[r].st \in {"claimed", "sent"} => r \in blind'

\* No row moves, and no line moves but to be forgotten or reported.
Quiet ==
  /\ UNCHANGED <<row, heard, written, again>> /\ hand'.key = hand.key /\ blind \subseteq blind'
  /\ at' = "push" <=> at = "push"
  /\ gate' = gate \/ gate' = <<>>
  /\ stdin' \subseteq stdin
  /\ \A k \in Keys : /\ Reported(k)' => Reported(k) \/ Carried(k)
                     /\ Carried(k)' => Carried(k)
                     /\ Doomed(k)' => Doomed(k) \/ k \in stdin \ stdin' \/ LeftBlind(k)

\* The line at the head of the gate is written, or its write fails.
Writes ==
  /\ gate # <<>> /\ gate' = Tail(gate)
  /\ UNCHANGED <<row, heard, blind>> /\ hand'.key = hand.key /\ at' = at
  /\ \/ /\ written' = written \cup {Head(gate)} /\ again' = again \cup ({Head(gate)} \cap written)
        /\ stdin' \subseteq stdin \cup {Head(gate)}
        /\ \A k \in Keys : (Carried(k)' => Carried(k) \/ k = Head(gate)) /\ (Doomed(k)' => Doomed(k))
     \/ /\ UNCHANGED <<written, again>> /\ stdin' \subseteq stdin
        /\ \A k \in Keys : (Carried(k)' => Carried(k)) /\ (Doomed(k)' => Doomed(k) \/ k = Head(gate))
  /\ \A k \in Keys : Reported(k)' => Reported(k) \/ k = Head(gate)

\* The agent starts on a line.
Begins(k) ==
  /\ k \in stdin /\ stdin' = stdin \ {k}
  /\ UNCHANGED <<row, gate, hand, at, written, again, blind>>
  /\ heard' = [r \in Rows |-> IF \E pair \in k : pair[1] = r THEN heard[r] \cup {k} ELSE heard[r]]
  /\ \A x \in Keys : /\ Reported(x)' => Reported(x)
                     /\ Carried(x)' => Carried(x)
                     /\ Doomed(x)' => Doomed(x)

\* The table alone moves.
Sweep ==
  /\ UNCHANGED <<gate, stdin, heard, written, again>> /\ hand'.key = hand.key /\ blind \subseteq blind'
  /\ at' = "push" <=> at = "push"
  /\ \A k \in Keys : /\ Reported(k)' => Reported(k)
                     /\ Carried(k)' => Carried(k)
                     /\ Doomed(k)' => Doomed(k)
  /\ \A r \in Rows :
       \/ Stays(row, row', r)
       \/ /\ Returns(row, row', r)
          /\ \/ r \in blind' \/ Doomed(row[r].key)
             \/ /\ at # "push" /\ row[r].st = "claimed"
                /\ row[r].key \notin written /\ row[r].key \notin GateKeys

LEMMA PostSays ==
  ASSUME Typed, NEW m \in Kinds, NEW keys \in SUBSET Keys, Post(m, keys)
  PROVE  \A k : /\ Reported(k)' <=> Reported(k) \/ k \in keys
                /\ ToReturn(k)' <=> ToReturn(k) \/ (m \in Returning /\ k \in keys)
<1>1. CASE keys = {}
  BY <1>1 DEF Post, Reported, ToReturn
<1>2. CASE keys # {}
  <2>1. ToSet(inbox') = ToSet(inbox) \cup {Msg(m, keys)}
    BY <1>2, PostIs
  <2>2. Msg(m, keys).m = m /\ Msg(m, keys).keys = keys
    BY DEF Msg
  <2> HIDE DEF Msg
  <2> QED BY <2>1, <2>2 DEF Reported, ToReturn
<1> QED BY <1>1, <1>2

LEMMA IngestSays ==
  ASSUME Typed, NEW m \in Kinds, NEW keys \in SUBSET Keys, Ingest(m, keys)
  PROVE  \A k : /\ Reported(k) => Reported(k)'
                /\ Reported(k)' => Reported(k) \/ k \in keys
                /\ ToReturn(k)' => ToReturn(k) \/ (m \in Returning /\ k \in keys)
<1>1. CASE Post(m, keys)
  BY <1>1, PostSays
<1>2. CASE inbox' = inbox
  BY <1>2 DEF Reported, ToReturn
<1> QED BY <1>1, <1>2 DEF Ingest

\* Fewer events, or reports, say less.
LEMMA LessSaid ==
  /\ ToSet(events') \subseteq ToSet(events) => \A k : (Told(k)' => Told(k)) /\ (Dropping(k)' => Dropping(k))
  /\ ToSet(inbox') \subseteq ToSet(inbox) => \A k : (Reported(k)' => Reported(k)) /\ (ToReturn(k)' => ToReturn(k))
BY DEF Told, Dropping, Reported, ToReturn

LEMMA LessCarried ==
  ASSUME /\ stdin' \subseteq stdin /\ unstarted' \subseteq unstarted /\ turn' \subseteq turn
         /\ stopping'.keys \subseteq stopping.keys /\ stopping'.taken \subseteq stopping.taken
         /\ ToSet(events') \subseteq ToSet(events)
  PROVE  \A k : /\ Carried(k)' => Carried(k)
                /\ Doomed(k)' => Doomed(k) \/ ToReturn(k)'
BY LessSaid DEF Carried, Doomed

LEMMA QuietWhenLess ==
  ASSUME Typed, UNCHANGED <<row, heard, written, again, inbox>>, hand'.key = hand.key, blind' = blind,
         at' = "push" <=> at = "push", gate' = gate \/ gate' = <<>>,
         stdin' \subseteq stdin, unstarted' \subseteq unstarted, turn' \subseteq turn,
         stopping'.keys \subseteq stopping.keys, stopping'.taken \subseteq stopping.taken,
         ToSet(events') \subseteq ToSet(events)
  PROVE  Quiet
<1>1. \A k : /\ Carried(k)' => Carried(k)
             /\ Doomed(k)' => Doomed(k) \/ ToReturn(k)'
             /\ Reported(k)' => Reported(k) /\ (ToReturn(k)' => ToReturn(k))
  BY LessCarried, LessSaid
<1>2. \A k : ToReturn(k) => Doomed(k)
  BY DEF Doomed
<1>3. \A k : ToReturn(k)' <=> ToReturn(k)
  BY DEF ToReturn
<1> QED BY <1>1, <1>2, <1>3 DEF Quiet

LEMMA QuietSteps ==
  ASSUME Typed,
         \/ UNCHANGED vars \/ End \/ Output \/ Bind \/ LinkInFlight \/ Disconnect \/ TabClose
         \/ Exit \/ Respawn
         \/ (UserSend /\ (hold = "none" \/ gate = <<>>))
  PROVE  Quiet
<1>1. CASE UNCHANGED vars \/ End \/ Output \/ Bind \/ LinkInFlight
  <2>1. /\ UNCHANGED <<row, heard, written, again, inbox, hand, blind, gate, stdin, unstarted, turn, stopping, events>>
        /\ at' = "push" <=> at = "push"
    BY <1>1 DEF vars, End, Output, Bind, LinkInFlight, history, gateVars, cliVars, drainVars
  <2> QED BY <2>1, QuietWhenLess
<1>2. CASE Disconnect
  <2>1. /\ UNCHANGED <<row, heard, written, again, inbox, hand, blind, stdin, turn, stopping, events, at>>
        /\ gate' = <<>> /\ unstarted' = {}
    BY <1>2 DEF Disconnect, Unbind, history, cliVars, drainVars
  <2> QED BY <2>1, QuietWhenLess
<1>3. CASE TabClose
  <2>1. /\ UNCHANGED <<row, heard, written, again, inbox, blind, at>>
        /\ gate' = <<>> /\ unstarted' = {} /\ stdin' = {} /\ turn' = {} /\ events' = <<>> /\ stopping' = NoStop
        /\ hand' \in {hand, [hand EXCEPT !.gone = TRUE]}
    BY <1>3 DEF TabClose, Unbind, history
  <2>2. hand'.key = hand.key
    BY <2>1 DEF Typed
  <2>3. ToSet(events') \subseteq ToSet(events)
    BY <2>1, ToSetSmall
  <2> QED BY <2>1, <2>2, <2>3, QuietWhenLess, NoStopTyped
<1>4. CASE Exit \/ Respawn \/ (UserSend /\ (hold = "none" \/ gate = <<>>))
  <2>1. /\ UNCHANGED <<row, heard, written, again, inbox, blind, at, hand, gate, unstarted>>
        /\ stdin' \subseteq stdin /\ turn' \subseteq turn /\ events' \in {events, <<>>}
        /\ stopping' \in {stopping, Reaped}
    <3>1. CASE Exit \/ Respawn
      BY <3>1 DEF Exit, Respawn, history, drainVars
    <3>2. CASE UserSend /\ (hold = "none" \/ gate = <<>>)
      BY <3>2 DEF UserSend, drainVars
    <3> QED BY <1>4, <3>1, <3>2
  <2>2. ToSet(events') \subseteq ToSet(events)
    BY <2>1, ToSetSmall
  <2>3. stopping'.keys = stopping.keys /\ stopping'.taken = stopping.taken
    BY <2>1, ReapedTyped, DataParts
  <2> QED BY <2>1, <2>2, <2>3, QuietWhenLess
<1> QED BY <1>1, <1>2, <1>3, <1>4

LEMMA QuietFinish == ASSUME Typed, Finish PROVE Quiet
<1>1. /\ UNCHANGED <<row, heard, written, again, inbox, hand, blind, gate, stdin, unstarted, stopping, at>>
      /\ turn' = {} /\ events' = Append(events, Msg("ended", turn))
  BY DEF Finish, gateVars, drainVars, history
<1>2. Msg("ended", turn) \in Event /\ Msg("ended", turn).m = "ended" /\ Msg("ended", turn).keys = turn
  BY DEF Typed, Msg, Event
<1>3. ToSet(events') = ToSet(events) \cup {Msg("ended", turn)}
  BY <1>1, <1>2, ToSetAppend DEF Typed
<1>4. \A k : /\ Told(k)' => Told(k) \/ k \in turn
             /\ Dropping(k)' => Dropping(k)
  BY <1>2, <1>3 DEF Told, Dropping
<1>5. \A k : (Reported(k)' <=> Reported(k)) /\ (ToReturn(k)' <=> ToReturn(k))
  BY <1>1 DEF Reported, ToReturn
<1>6. \A k : /\ Carried(k)' => Carried(k)
             /\ Doomed(k)' => Doomed(k)
  BY <1>1, <1>4, <1>5 DEF Carried, Doomed
<1> QED BY <1>1, <1>5, <1>6 DEF Quiet

LEMMA QuietStop == ASSUME Typed, Stop PROVE Quiet
<1>1. /\ UNCHANGED <<row, heard, written, again, inbox, hand, blind, gate, stdin, turn, events, at>>
      /\ stopping' = [at |-> "asked", keys |-> unstarted, taken |-> {}] /\ unstarted' = {}
  BY DEF Stop, history, cliVars, drainVars
<1>2. \A k : /\ Told(k)' <=> Told(k)
             /\ Dropping(k)' <=> Dropping(k)
             /\ Reported(k)' <=> Reported(k)
             /\ ToReturn(k)' <=> ToReturn(k)
  BY <1>1 DEF Told, Dropping, Reported, ToReturn
<1> QED BY <1>1, <1>2 DEF Quiet, Carried, Doomed

LEMMA QuietReply == ASSUME Typed, StopReply PROVE Quiet
<1>1. /\ UNCHANGED <<row, heard, written, again, hand, blind, gate, stdin, turn, events, at>>
      /\ stopping' = NoStop /\ unstarted' = unstarted \cup (stopping.keys \ stopping.taken)
      /\ Post("taken", stopping.taken)
  BY DEF StopReply, history, cliVars, drainVars
<1>2. \A k : /\ Told(k)' <=> Told(k)
             /\ Dropping(k)' <=> Dropping(k)
  BY <1>1 DEF Told, Dropping
<1>3. stopping.taken \in SUBSET Keys /\ stopping.taken \subseteq stopping.keys /\ "taken" \in Kinds
  BY DEF Typed, Kinds
<1>4. \A k : /\ Reported(k)' <=> Reported(k) \/ k \in stopping.taken
             /\ ToReturn(k)' => ToReturn(k) \/ k \in stopping.taken
  BY <1>1, <1>3, PostSays
<1> QED BY <1>1, <1>2, <1>3, <1>4, NoStopTyped DEF Quiet, Carried, Doomed

LEMMA QuietTakeBack == ASSUME Typed, TakeBack PROVE Quiet
<1>1. PICK gone \in SUBSET (stopping.keys \cap stdin), said \in SUBSET Keys :
           /\ said \subseteq gone /\ stdin' = stdin \ gone
           /\ stopping' = [stopping EXCEPT !.at = "answered", !.taken = said]
           /\ ToSet(events') \subseteq ToSet(events) \cup {Msg("dropped", gone \ said), Msg("ended", {})}
  BY TakeBackIs
<1>2. /\ UNCHANGED <<row, heard, written, again, hand, blind, gate, inbox, unstarted, at>> /\ turn' = {}
  BY DEF TakeBack, history, drainVars
<1>3. stopping'.keys = stopping.keys /\ stopping'.taken = said
  BY <1>1 DEF Typed
<1>4. /\ Msg("dropped", gone \ said).keys = gone \ said
      /\ Msg("ended", {}).m = "ended" /\ Msg("ended", {}).keys = {}
  BY DEF Msg
<1> HIDE DEF Msg
<1>5. \A k : /\ Told(k)' => Told(k) \/ k \in gone
             /\ Dropping(k)' => Dropping(k) \/ k \in gone
  BY <1>1, <1>4 DEF Told, Dropping
<1>6. \A k : /\ Reported(k)' <=> Reported(k)
             /\ ToReturn(k)' <=> ToReturn(k)
  BY <1>2 DEF Reported, ToReturn
<1> QED BY <1>1, <1>2, <1>3, <1>5, <1>6 DEF Quiet, Carried, Doomed

LEMMA QuietGiveUp == ASSUME Typed, GiveUp PROVE Quiet
<1>1. /\ UNCHANGED <<row, heard, written, again, hand, gate, stdin, turn, events, stopping, at>>
  BY DEF GiveUp, viewVars, cliVars, drainVars
<1>2. \A k : /\ Told(k)' <=> Told(k)
             /\ Dropping(k)' <=> Dropping(k)
  BY <1>1 DEF Told, Dropping
<1>3. CASE UNCHANGED <<unstarted, inbox, blind>>
  BY <1>1, <1>3, QuietWhenLess
<1>4. CASE /\ Post("failed", unstarted) /\ unstarted' = {}
           /\ blind' = blind \cup (Under(row, unstarted) \cap In(row, {"claimed", "sent"}))
  <2>1. unstarted \in SUBSET Keys /\ "failed" \in Kinds
    BY DEF Typed, Kinds
  <2>2. \A k : /\ Reported(k)' <=> Reported(k) \/ k \in unstarted
               /\ ToReturn(k)' => ToReturn(k) \/ k \in unstarted
    BY <1>4, <2>1, PostSays
  <2>3. \A k \in unstarted : LeftBlind(k)
    BY <1>4 DEF LeftBlind, Under, In
  <2> QED BY <1>1, <1>2, <1>4, <2>2, <2>3 DEF Quiet, Carried, Doomed
<1> QED BY <1>3, <1>4 DEF GiveUp

LEMMA QuietTakeEvent == ASSUME Typed, TakeEvent PROVE Quiet
<1> DEFINE e == Head(events)
<1>1. /\ UNCHANGED <<row, heard, written, again, hand, gate, stdin, turn, stopping, at, blind>>
      /\ events # <<>> /\ events' = Tail(events) /\ unstarted' = unstarted \ e.keys
  BY DEF TakeEvent, history, drainVars
<1>2. ToSet(events) = {e} \cup ToSet(events') /\ e \in Event
  BY <1>1, ToSetTail DEF Typed
<1>3. e.keys \in SUBSET Keys
  BY <1>2 DEF Event
<1>4. PICK m \in {"accepted", "dropped", "delivered"} : Ingest(m, e.keys) /\ (m = "dropped" => e.m = "dropped")
  BY DEF TakeEvent
<1> HIDE DEF e
<1>5. \A k : /\ Told(k)' => Told(k)
             /\ Dropping(k)' => Dropping(k)
             /\ k \in e.keys => Told(k)
             /\ k \in e.keys /\ e.m = "dropped" => Dropping(k)
  BY <1>2 DEF Told, Dropping
<1>6. \A k : /\ Reported(k)' => Reported(k) \/ k \in e.keys
             /\ ToReturn(k)' => ToReturn(k) \/ (m \in Returning /\ k \in e.keys)
  BY <1>3, <1>4, IngestSays DEF Kinds
<1>7. \A k : ToReturn(k)' => ToReturn(k) \/ Dropping(k)
  BY <1>4, <1>5, <1>6 DEF Returning
<1> QED BY <1>1, <1>5, <1>6, <1>7 DEF Quiet, Carried, Doomed

LEMMA WritesWhen ==
  ASSUME Typed, gate # <<>>, gate' = Tail(gate), NEW k, k = Head(gate),
         UNCHANGED <<row, heard, blind, hand, at>>,
         turn' \subseteq turn, ToSet(events') \subseteq ToSet(events),
         stopping'.keys = stopping.keys, stopping'.taken = stopping.taken,
         \/ /\ stdin' \subseteq stdin \cup {k} /\ unstarted' \subseteq unstarted \cup {k}
            /\ written' = written \cup {k} /\ again' = again \cup ({k} \cap written)
            /\ Post("written", {k})
         \/ /\ stdin' \subseteq stdin /\ unstarted' \subseteq unstarted /\ UNCHANGED <<written, again>>
            /\ Post("failed", {k})
  PROVE  Writes /\ \A x : Reported(x) \/ x = k => Reported(x)'
<1>1. {k} \in SUBSET Keys
  BY ToSetTail DEF Typed
<1>2. \A x : (Told(x)' => Told(x)) /\ (Dropping(x)' => Dropping(x))
  BY LessSaid
<1>3. CASE /\ stdin' \subseteq stdin \cup {k} /\ unstarted' \subseteq unstarted \cup {k}
           /\ written' = written \cup {k} /\ again' = again \cup ({k} \cap written)
           /\ Post("written", {k})
  <2>1. \A x : /\ Reported(x)' <=> Reported(x) \/ x = k
               /\ ToReturn(x)' => ToReturn(x)
    BY <1>1, <1>3, PostSays DEF Kinds, Returning
  <2>2. \A x : (Carried(x)' => Carried(x) \/ x = k) /\ (Doomed(x)' => Doomed(x))
    BY <1>2, <1>3, <2>1 DEF Carried, Doomed
  <2> QED BY <1>3, <2>1, <2>2 DEF Writes
<1>4. CASE /\ stdin' \subseteq stdin /\ unstarted' \subseteq unstarted /\ UNCHANGED <<written, again>>
           /\ Post("failed", {k})
  <2>1. \A x : /\ Reported(x)' <=> Reported(x) \/ x = k
               /\ ToReturn(x)' => ToReturn(x) \/ x = k
    BY <1>1, <1>4, PostSays DEF Kinds
  <2>2. \A x : (Carried(x)' => Carried(x)) /\ (Doomed(x)' => Doomed(x) \/ x = k)
    BY <1>2, <1>4, <2>1 DEF Carried, Doomed
  <2> QED BY <1>4, <2>1, <2>2 DEF Writes
<1> QED BY <1>3, <1>4

LEMMA WriteSteps ==
  ASSUME Typed, NEW k, k = Head(gate), Flush \/ SteerLine \/ (UserSend /\ hold # "none" /\ gate # <<>>)
  PROVE  Writes /\ \A x : Reported(x) \/ x = k => Reported(x)'
<1>1. CASE Flush \/ SteerLine
  <2>1. /\ gate # <<>> /\ gate' = Tail(gate) /\ Written(k)
        /\ UNCHANGED <<row, heard, blind, hand, at, turn, events, stopping>>
        /\ unstarted' \subseteq unstarted \cup {k} /\ (~alive => unstarted' = unstarted)
    BY <1>1 DEF Flush, SteerLine, drainVars
  <2>2. \/ /\ stdin' = stdin \cup {k} /\ written' = written \cup {k} /\ again' = again \cup ({k} \cap written)
           /\ Post("written", {k})
        \/ /\ ~alive /\ UNCHANGED <<stdin, written, again>>
           /\ Post("failed", {k})
    BY <2>1 DEF Written
  <2> QED BY <2>1, <2>2, WritesWhen
<1>2. CASE UserSend /\ hold # "none" /\ gate # <<>>
  <2>1. /\ gate' = Tail(gate) /\ gate # <<>>
        /\ UNCHANGED <<row, heard, blind, hand, at, unstarted>>
        /\ turn' \subseteq turn /\ events' \in {events, <<>>} /\ stopping' \in {stopping, Reaped}
    BY <1>2 DEF UserSend, drainVars
  <2>2. \/ /\ stdin' \subseteq stdin \cup {k} /\ written' = written \cup {k} /\ again' = again \cup ({k} \cap written)
           /\ Post("written", {k})
        \/ /\ stdin' \subseteq stdin /\ UNCHANGED <<written, again>>
           /\ Post("failed", {k})
    BY <1>2 DEF UserSend
  <2>3. ToSet(events') \subseteq ToSet(events)
    BY <2>1, ToSetSmall
  <2>4. stopping'.keys = stopping.keys /\ stopping'.taken = stopping.taken
    BY <2>1, ReapedTyped, DataParts
  <2> QED BY <2>1, <2>2, <2>3, <2>4, WritesWhen
<1> QED BY <1>1, <1>2

LEMMA BeginSteps == ASSUME Typed, NEW k \in stdin, Begin(k) PROVE Begins(k)
<1>1. /\ UNCHANGED <<row, gate, hand, at, written, again, blind, unstarted, stopping, inbox>>
      /\ stdin' = stdin \ {k} /\ turn' = turn \cup {k} /\ events' = Append(events, Msg("accepted", {k}))
      /\ heard' = [r \in Rows |-> IF \E pair \in k : pair[1] = r THEN heard[r] \cup {k} ELSE heard[r]]
  BY DEF Begin, gateVars, drainVars
<1>2. Msg("accepted", {k}) \in Event /\ Msg("accepted", {k}).m = "accepted" /\ Msg("accepted", {k}).keys = {k}
  BY DEF Typed, Msg, Event
<1>3. ToSet(events') = ToSet(events) \cup {Msg("accepted", {k})}
  BY <1>1, <1>2, ToSetAppend DEF Typed
<1>4. \A x : /\ Told(x)' => Told(x) \/ x = k
             /\ Dropping(x)' => Dropping(x)
  BY <1>2, <1>3 DEF Told, Dropping
<1>5. \A x : (Reported(x)' <=> Reported(x)) /\ (ToReturn(x)' <=> ToReturn(x))
  BY <1>1 DEF Reported, ToReturn
<1>6. \A x : /\ Carried(x)' => Carried(x)
             /\ Doomed(x)' => Doomed(x)
  BY <1>1, <1>4, <1>5 DEF Carried, Doomed
<1> QED BY <1>1, <1>5, <1>6 DEF Begins

LEMMA SweepWhen ==
  ASSUME UNCHANGED <<gate, stdin, unstarted, stopping, turn, events, heard, written, again, hand>>, blind \subseteq blind',
         at' = "push" <=> at = "push", ToSet(inbox') \subseteq ToSet(inbox),
         \A r \in Rows :
           \/ Stays(row, row', r)
           \/ /\ Returns(row, row', r)
              /\ \/ r \in blind' \/ Doomed(row[r].key)
                 \/ /\ at # "push" /\ row[r].st = "claimed"
                    /\ row[r].key \notin written /\ row[r].key \notin GateKeys
  PROVE  Sweep
<1>1. \A k : (Reported(k)' => Reported(k)) /\ (ToReturn(k)' => ToReturn(k))
  BY LessSaid
<1>2. \A k : (Told(k)' <=> Told(k)) /\ (Dropping(k)' <=> Dropping(k))
  BY DEF Told, Dropping
<1>3. \A k : (Carried(k)' => Carried(k)) /\ (Doomed(k)' => Doomed(k))
  BY <1>1, <1>2 DEF Carried, Doomed
<1> QED BY <1>1, <1>3 DEF Sweep

LEMMA SweepSteps ==
  ASSUME Typed, \/ \E r \in Rows : Record(r) \/ BackoffOver(r)
                \/ Settle \/ (\E k \in awaiting : Lapse(k)) \/ Tick \/ Handle
  PROVE  Sweep
<1>0. row \in Table /\ inbox \in Seq(Report)
  BY DEF Typed
<1> DEFINE Still == UNCHANGED <<gate, stdin, unstarted, stopping, turn, events, heard, written, again, hand>>
<1>1. ASSUME NEW s \in Rows, Record(s) PROVE Sweep
  <2>1. /\ Still /\ UNCHANGED <<blind, at, inbox>>
        /\ row' = [row EXCEPT ![s].st = "pending"] /\ row[s].st = "none"
    BY <1>1 DEF Record, Push, history, gateVars, cliVars, drainVars
  <2>2. \A r \in Rows : Stays(row, row', r)
    BY <1>0, <2>1 DEF Stays, Table, Row
  <2> QED BY <2>1, <2>2, SweepWhen
<1>2. ASSUME NEW s \in Rows, BackoffOver(s) PROVE Sweep
  <2>1. /\ Still /\ UNCHANGED <<blind, at, inbox>>
        /\ row' = [row EXCEPT ![s].rests = FALSE]
    BY <1>2 DEF BackoffOver, history, gateVars, cliVars, drainVars
  <2>2. \A r \in Rows : Stays(row, row', r)
    BY <1>0, <2>1 DEF Stays, Table, Row
  <2> QED BY <2>1, <2>2, SweepWhen
<1>3. CASE Settle
  <2> DEFINE rows == In(row, {"pending", "claimed"})
  <2>1. /\ Still /\ UNCHANGED <<blind, inbox>> /\ (at' = "push" <=> at = "push")
        /\ row' = Set(row, rows, "undeliverable")
    BY <1>3 DEF Settle, SettleUndeliverable, history, gateVars, cliVars
  <2> HIDE DEF rows
  <2>2. \A r \in Rows : Stays(row, row', r)
    BY <1>0, <2>1, SetRows DEF Stays, RowStates
  <2> QED BY <2>1, <2>2, SweepWhen
<1>4. ASSUME NEW k \in awaiting, Lapse(k) PROVE Sweep
  <2> DEFINE rows == Under(row, {k}) \cap In(row, {"sent"})
  <2>1. /\ Still /\ UNCHANGED <<blind, at, inbox>>
        /\ row' = Set(row, rows, "unconfirmed")
    BY <1>4 DEF Lapse, MarkUnconfirmed, history, gateVars, cliVars
  <2> HIDE DEF rows
  <2>2. \A r \in Rows : Stays(row, row', r)
    BY <1>0, <2>1, SetRows DEF Stays, RowStates
  <2> QED BY <2>1, <2>2, SweepWhen
<1>5. CASE Tick
  <2>1. /\ Still /\ inbox' = inbox /\ at = "wait" /\ at' = "link" /\ LetGo(row)
    BY <1>5 DEF Tick, gateVars, cliVars
  <2>2. \A r \in Rows : \/ Stays(row, row', r)
                        \/ /\ Returns(row, row', r) /\ row[r].st = "claimed"
                           /\ r \in blind' \/ (row[r].key \notin written /\ row[r].key \notin GateKeys)
    BY <1>0, <2>1, LetGoRows
  <2>3. blind \subseteq blind'
    BY <1>0, <2>1, LetGoRows
  <2> QED BY <2>1, <2>2, <2>3, SweepWhen
<1>6. CASE Handle
  <2> DEFINE m == Head(inbox).m
             keys == Head(inbox).keys
             t == Settled(m, keys)
  <2>1. /\ Still /\ inbox' = Tail(inbox) /\ inbox # <<>> /\ at = "wait" /\ at' = "link" /\ LetGo(t)
    BY <1>6 DEF Handle, gateVars, cliVars
  <2>2. Head(inbox) \in Report /\ ToSet(inbox) = {Head(inbox)} \cup ToSet(inbox')
    BY <1>0, <2>1, ToSetTail
  <2>3. m \in Kinds
    BY <2>2 DEF Report
  <2>4. /\ t \in Table
        /\ \A r \in Rows : \/ Stays(row, t, r)
                           \/ m \in Returning /\ row[r].key \in keys /\ Returns(row, t, r)
    BY <1>0, <2>3, SettledRows
  <2>5. \A k : m \in Returning /\ k \in keys => Doomed(k)
    BY <2>2 DEF Doomed, ToReturn
  <2> HIDE DEF t, m, keys
  <2>6. /\ blind \subseteq blind' /\ row' \in Table
        /\ \A r \in Rows : /\ t[r].st \notin {"claimed", "sent"} => row'[r] = t[r]
                           /\ \/ Stays(t, row', r)
                              \/ /\ Returns(t, row', r) /\ t[r].st = "claimed"
                                 /\ r \in blind' \/ (t[r].key \notin written /\ t[r].key \notin GateKeys)
    BY <2>1, <2>4, LetGoRows
  <2>7. ASSUME NEW r \in Rows
        PROVE  \/ Stays(row, row', r)
               \/ /\ Returns(row, row', r)
                  /\ \/ r \in blind' \/ Doomed(row[r].key)
                     \/ /\ at # "push" /\ row[r].st = "claimed"
                        /\ row[r].key \notin written /\ row[r].key \notin GateKeys
    <3>1. CASE Stays(row, t, r) /\ Stays(t, row', r)
      BY <3>1 DEF Stays
    <3>2. CASE Stays(row, t, r) /\ ~Stays(t, row', r)
      <4>1. /\ Returns(t, row', r) /\ t[r].st = "claimed"
            /\ r \in blind' \/ (t[r].key \notin written /\ t[r].key \notin GateKeys)
        BY <2>6, <3>2
      <4>2. row[r].st = "claimed" /\ row[r].key = t[r].key /\ row[r].tries = t[r].tries
        BY <3>2, <4>1 DEF Stays
      <4> QED BY <2>1, <4>1, <4>2 DEF Returns
    <3>3. CASE ~Stays(row, t, r)
      <4>1. m \in Returning /\ row[r].key \in keys /\ Returns(row, t, r)
        BY <2>4, <3>3
      <4>2. row'[r] = t[r]
        BY <2>6, <4>1 DEF Returns
      <4> QED BY <2>5, <4>1, <4>2 DEF Returns
    <3> QED BY <3>1, <3>2, <3>3
  <2> QED BY <2>1, <2>2, <2>6, <2>7, SweepWhen
<1> QED BY <1>1, <1>2, <1>3, <1>4, <1>5, <1>6

LEMMA StepKinds ==
  ASSUME Typed, [Next]_vars
  PROVE  Quiet \/ Writes \/ (\E k \in stdin : Begins(k)) \/ HandOver \/ Restart \/ Sweep \/ Drain
<1>1. CASE UserSend
  <2>1. CASE hold = "none" \/ gate = <<>>
    BY <1>1, <2>1, QuietSteps
  <2>2. CASE hold # "none" /\ gate # <<>>
    BY <1>1, <2>2, WriteSteps
  <2> QED BY <2>1, <2>2
<1>2. CASE Flush \/ SteerLine
  BY <1>2, WriteSteps
<1>3. CASE UNCHANGED vars \/ End \/ Output \/ Bind \/ LinkInFlight \/ Disconnect \/ TabClose \/ Exit \/ Respawn
  BY <1>3, QuietSteps
<1>4. CASE Finish \/ Stop \/ StopReply \/ TakeBack \/ GiveUp \/ TakeEvent
  BY <1>4, QuietFinish, QuietStop, QuietReply, QuietTakeBack, QuietGiveUp, QuietTakeEvent
<1>5. ASSUME NEW k \in stdin, Begin(k) PROVE Begins(k)
  BY <1>5, BeginSteps
<1>6. CASE \/ \E r \in Rows : Record(r) \/ BackoffOver(r)
           \/ Settle \/ (\E k \in awaiting : Lapse(k)) \/ Tick \/ Handle
  BY <1>6, SweepSteps
<1> QED BY <1>1, <1>2, <1>3, <1>4, <1>5, <1>6 DEF Next, View, User, Drainer

-----------------------------------------------------------------------------
(* The inductive invariant: a key names its rows at one attempt, is in one *)
(* place, and what the agent started on is never owed again.               *)

Keyed ==
  \A r \in Rows :
    /\ row[r].st \in {"none", "pending"} => row[r].key = NoKey
    /\ row[r].st \in {"claimed", "sent"} => row[r].key # NoKey
    /\ row[r].key # NoKey => <<r, row[r].tries>> \in row[r].key

\* A key that is about is not made again: its attempts are past, or current.
Dated ==
  \A k \in Keys : Present(k) =>
    \A r \in Rows, n \in Nat :
      <<r, n>> \in k => n <= row[r].tries /\ (n = row[r].tries => row[r].key = k)

Apart ==
  /\ NoDup(gate) /\ NoKey \notin GateKeys \cup written
  /\ GateKeys \cap written = {}
  /\ hand.key \notin GateKeys /\ hand.key \notin written
  /\ at = "push" <=> hand.key # NoKey

OnTheWay == \A k \in Keys : Carried(k) => k \in written

\* A line not started on is that of its rows, but for those put back blindly.
Waiting(k) == k \in stdin \/ k \in GateKeys \/ k = hand.key
Lines ==
  \A k \in Keys : Waiting(k) =>
    \A r \in Rows \ blind, n \in Nat : <<r, n>> \in k => row[r].key = k /\ k \notin heard[r]

HeardOnce ==
  \A r \in Rows \ blind :
    /\ heard[r] \subseteq {row[r].key} \ {NoKey}
    /\ row[r].st = "claimed" /\ heard[r] # {} => row[r].key \in written

Settling ==
  \A r \in Rows \ blind :
    row[r].st \in {"claimed", "sent"} /\ Doomed(row[r].key) =>
      ~Waiting(row[r].key) /\ row[r].key \notin heard[r]

Inv ==
  /\ Typed /\ Keyed /\ Dated /\ Apart /\ OnTheWay /\ Lines /\ HeardOnce /\ Settling
  /\ again = {}

LEMMA KeyOfRow == ASSUME Typed, NEW r \in Rows PROVE row[r].key \in Keys /\ row[r].tries \in Nat
BY DEF Typed, Table, Row

LEMMA GateMoves ==
  ASSUME Typed
  PROVE  /\ gate' = gate => GateKeys' = GateKeys
         /\ gate' = <<>> => GateKeys' = {} /\ NoDup(gate')
         /\ gate # <<>> /\ gate' = Tail(gate) =>
              /\ GateKeys = {Head(gate)} \cup GateKeys' /\ Head(gate) \in Keys
              /\ NoDup(gate) => Head(gate) \notin GateKeys' /\ NoDup(gate')
         /\ HandOver => /\ GateKeys' \subseteq GateKeys \cup {hand.key}
                        /\ NoDup(gate) /\ hand.key \notin GateKeys => NoDup(gate')
<1>0. gate \in Seq(Keys) /\ hand.key \in Keys
  BY DEF Typed
<1>1. ASSUME gate' = <<>> PROVE GateKeys' = {} /\ NoDup(gate')
  BY <1>1, ToSetSmall, NoDupEmpty DEF GateKeys
<1>2. ASSUME gate # <<>>, gate' = Tail(gate)
      PROVE  /\ GateKeys = {Head(gate)} \cup GateKeys' /\ Head(gate) \in Keys
             /\ NoDup(gate) => Head(gate) \notin GateKeys' /\ NoDup(gate')
  BY <1>0, <1>2, ToSetTail, NoDupTail DEF GateKeys
<1>3. ASSUME HandOver
      PROVE  /\ GateKeys' \subseteq GateKeys \cup {hand.key}
             /\ NoDup(gate) /\ hand.key \notin GateKeys => NoDup(gate')
  <2>1. CASE gate' = gate
    BY <2>1 DEF GateKeys
  <2>2. CASE gate' = Append(gate, hand.key)
    <3>1. ToSet(gate') = ToSet(gate) \cup {hand.key}
      BY <1>0, <2>2, ToSetAppend
    <3>2. NoDup(gate) /\ hand.key \notin ToSet(gate) => NoDup(gate')
      BY <1>0, <2>2, NoDupAppend
    <3> QED BY <3>1, <3>2 DEF GateKeys
  <2> QED BY <1>3, <2>1, <2>2 DEF HandOver
<1> QED BY <1>1, <1>2, <1>3 DEF GateKeys

\* The key of a batch is a new one.
LEMMA FreshKey == ASSUME Typed, Keyed, Dated, Drain PROVE ~Present(hand'.key)
<1>1. SUFFICES ASSUME Present(hand'.key) PROVE FALSE
  OBVIOUS
<1>0. row \in Table
  BY DEF Typed
<1>2. hand'.key \in Keys /\ hand'.key # NoKey
  BY <1>0, DrainRows
<1>3. PICK pair \in hand'.key : TRUE
  BY <1>2 DEF NoKey
<1>4. PICK r \in Rows : Claims(r) /\ <<r, row'[r].tries>> \in hand'.key
  BY <1>0, <1>3, DrainRows
<1>5. row[r].tries \in Nat
  BY KeyOfRow
<1>6. row'[r].tries \in Nat
  BY <1>4, <1>5 DEF Claims
<1>7. row'[r].tries <= row[r].tries /\ (row'[r].tries = row[r].tries => row[r].key = hand'.key)
  BY <1>1, <1>2, <1>4, <1>6 DEF Dated
<1>8. row[r].st = "pending" => row[r].key = NoKey
  BY DEF Keyed
<1> QED BY <1>2, <1>4, <1>5, <1>7, <1>8 DEF Claims

LEMMA DoomedIsPresent ==
  ASSUME Typed, OnTheWay, NEW k \in Keys
  PROVE  (Doomed(k) => Present(k)) /\ (k \in stdin => k \in written)
<1>1. stopping.taken \subseteq stopping.keys
  BY DEF Typed
<1>2. Dropping(k) => Told(k)
  BY DEF Dropping, Told
<1>3. ToReturn(k) => Reported(k)
  BY DEF ToReturn, Reported
<1> QED BY <1>1, <1>2, <1>3 DEF Doomed, Present, Carried, OnTheWay

\* What is about after a step was about before it, but for a batch's new key.
LEMMA PresentMoves ==
  ASSUME Typed, OnTheWay, [Next]_vars, NEW k \in Keys, Present(k)'
  PROVE  Present(k) \/ k = NoKey \/ (Drain /\ k = hand'.key)
<1>1. CASE Quiet
  <2>1. GateKeys' \subseteq GateKeys
    BY <1>1, GateMoves DEF Quiet
  <2> QED BY <1>1, <2>1 DEF Quiet, Present, OnTheWay
<1>2. CASE Writes
  <2>1. GateKeys = {Head(gate)} \cup GateKeys'
    BY <1>2, GateMoves DEF Writes
  <2> QED BY <1>2, <2>1 DEF Writes, Present
<1>3. ASSUME NEW x \in stdin, Begins(x) PROVE Present(k)
  <2>1. GateKeys' = GateKeys
    BY <1>3, GateMoves DEF Begins
  <2> QED BY <1>3, <2>1 DEF Begins, Present
<1>4. CASE HandOver
  <2>1. GateKeys' \subseteq GateKeys \cup {hand.key}
    BY <1>4, GateMoves
  <2>2. hand'.key = NoKey /\ UNCHANGED <<written, inbox>>
    BY <1>4, NoHandTyped DEF HandOver, history
  <2> QED BY <2>1, <2>2 DEF Present, Reported
<1>5. CASE Restart
  <2>1. GateKeys' = {}
    BY <1>5, GateMoves DEF Restart
  <2>2. hand'.key = NoKey /\ written' = {} /\ ToSet(inbox') = {}
    BY <1>5, NoHandTyped, ToSetSmall DEF Restart
  <2> QED BY <2>1, <2>2 DEF Present, Reported
<1>6. CASE Sweep
  <2>1. GateKeys' = GateKeys
    BY <1>6, GateMoves DEF Sweep
  <2> QED BY <1>6, <2>1 DEF Sweep, Present
<1>7. CASE Drain
  <2>1. GateKeys' = {} /\ UNCHANGED <<written, inbox>>
    BY <1>7, GateMoves DEF Drain
  <2> QED BY <1>7, <2>1 DEF Present, Reported
<1> QED BY <1>1, <1>2, <1>3, <1>4, <1>5, <1>6, <1>7, StepKinds

\* A claim of the last host instance is owed under the same attempt.
Rejoins(r) ==
  /\ Restart /\ row[r].st = "claimed"
  /\ row'[r].st = "pending" /\ row'[r].key = NoKey /\ row'[r].tries = row[r].tries

\* Why a row may return.
Reason(r) ==
  \/ Drain /\ row[r].key \in GateKeys
  \/ Sweep /\ (r \in blind' \/ Doomed(row[r].key))
  \/ /\ Sweep /\ at # "push" /\ row[r].st = "claimed"
     /\ row[r].key \notin written /\ row[r].key \notin GateKeys

LEMMA RowMoves ==
  ASSUME Typed, [Next]_vars, NEW r \in Rows
  PROVE  \/ Stays(row, row', r)
         \/ Returns(row, row', r) /\ Reason(r)
         \/ Drain /\ Claims(r) /\ <<r, row'[r].tries>> \in hand'.key
         \/ Rejoins(r)
<1>0. row \in Table
  BY DEF Typed
<1>1. CASE row'[r] = row[r]
  BY <1>1 DEF Stays
<1>2. CASE Sweep
  BY <1>2 DEF Sweep, Reason
<1>3. CASE Drain
  <2>1. \/ row'[r] = row[r]
        \/ Returns(row, row', r) /\ row[r].key \in GateKeys
        \/ Claims(r)
    BY <1>0, <1>3, DrainRows
  <2>2. Claims(r) => <<r, row'[r].tries>> \in hand'.key
    BY <1>0, <1>3, DrainRows
  <2> QED BY <1>1, <1>3, <2>1, <2>2 DEF Reason
<1>4. CASE Restart
  <2>1. row' = TakeOver(row)
    BY <1>4 DEF Restart
  <2>2. /\ row'[r].tries = row[r].tries
        /\ row[r].st = "claimed" => row'[r].st = "pending" /\ row'[r].key = NoKey
        /\ row[r].st = "sent" => row'[r].st = "unconfirmed" /\ row'[r].key = row[r].key
        /\ row[r].st \notin {"claimed", "sent"} => row'[r] = row[r]
    BY <1>0, <2>1, TakeOverRows
  <2> QED BY <1>4, <2>2 DEF Stays, Rejoins
<1>5. CASE Quiet \/ Writes \/ (\E k \in stdin : Begins(k)) \/ HandOver
  BY <1>1, <1>5 DEF Quiet, Writes, Begins, HandOver
<1> QED BY <1>2, <1>3, <1>4, <1>5, StepKinds

LEMMA KeyedSteps == ASSUME Typed, Keyed, [Next]_vars PROVE Keyed'
<1> SUFFICES ASSUME NEW r \in Rows
             PROVE  /\ row'[r].st \in {"none", "pending"} => row'[r].key = NoKey
                    /\ row'[r].st \in {"claimed", "sent"} => row'[r].key # NoKey
                    /\ row'[r].key # NoKey => <<r, row'[r].tries>> \in row'[r].key
  BY DEF Keyed
<1>1. CASE Stays(row, row', r)
  BY <1>1 DEF Stays, Keyed
<1>2. CASE Returns(row, row', r)
  BY <1>2 DEF Returns
<1>3. CASE Drain /\ Claims(r) /\ <<r, row'[r].tries>> \in hand'.key
  <2>1. hand'.key # NoKey
    BY <1>3, DrainRows DEF Typed
  <2> QED BY <1>3, <2>1 DEF Claims
<1>4. CASE Rejoins(r)
  BY <1>4 DEF Rejoins
<1> QED BY <1>1, <1>2, <1>3, <1>4, RowMoves

LEMMA DatedSteps == ASSUME Typed, Keyed, Dated, OnTheWay, [Next]_vars PROVE Dated'
<1> SUFFICES ASSUME NEW k \in Keys, Present(k)', NEW r \in Rows, NEW n \in Nat, <<r, n>> \in k
             PROVE  n <= row'[r].tries /\ (n = row'[r].tries => row'[r].key = k)
  BY DEF Dated
<1>0. row[r].tries \in Nat /\ k # NoKey
  BY KeyOfRow DEF NoKey
<1>1. CASE Present(k)
  <2>0. n <= row[r].tries /\ (n = row[r].tries => row[r].key = k)
    BY <1>1 DEF Dated
  <2>1. CASE Stays(row, row', r)
    BY <2>0, <2>1 DEF Stays
  <2>2. CASE Returns(row, row', r)
    BY <1>0, <2>0, <2>2 DEF Returns
  <2>3. CASE Drain /\ Claims(r)
    <3>1. row[r].st = "pending" => row[r].key = NoKey
      BY DEF Keyed
    <3> QED BY <1>0, <2>0, <2>3, <3>1 DEF Claims
  <2>4. CASE Rejoins(r)
    <3>1. GateKeys' = {} /\ hand'.key = NoKey /\ written' = {} /\ ToSet(inbox') = {}
      BY <2>4, GateMoves, NoHandTyped, ToSetSmall DEF Rejoins, Restart
    <3>2. ~Present(k)'
      BY <1>0, <3>1 DEF Present, Reported
    <3> QED BY <3>2
  <2> QED BY <2>1, <2>2, <2>3, <2>4, RowMoves
<1>2. CASE ~Present(k)
  <2>1. Drain /\ k = hand'.key
    BY <1>0, <1>2, PresentMoves
  <2>2. /\ <<r, n>>[1] = r /\ Claims(<<r, n>>[1])
        /\ <<r, n>> = <<<<r, n>>[1], row'[<<r, n>>[1]].tries>>
    BY <2>1, DrainRows DEF Typed
  <2>3. Claims(r) /\ n = row'[r].tries
    BY <2>2
  <2> QED BY <2>1, <2>3 DEF Claims
<1> QED BY <1>1, <1>2

LEMMA ApartSteps == ASSUME Typed, Keyed, Dated, Apart, OnTheWay, [Next]_vars PROVE Apart'
<1> USE DEF Apart
<1>1. CASE Quiet
  <2>1. GateKeys' \subseteq GateKeys /\ NoDup(gate')
    BY <1>1, GateMoves DEF Quiet
  <2> QED BY <1>1, <2>1 DEF Quiet
<1>2. CASE Writes
  <2>1. GateKeys = {Head(gate)} \cup GateKeys' /\ Head(gate) \notin GateKeys' /\ NoDup(gate')
    BY <1>2, GateMoves DEF Writes
  <2> QED BY <1>2, <2>1 DEF Writes
<1>3. ASSUME NEW x \in stdin, Begins(x) PROVE Apart'
  BY <1>3, GateMoves DEF Begins
<1>4. CASE HandOver
  <2>1. GateKeys' \subseteq GateKeys \cup {hand.key} /\ NoDup(gate')
    BY <1>4, GateMoves
  <2>2. hand'.key = NoKey /\ at' = "wait" /\ at = "push" /\ written' = written
    BY <1>4, NoHandTyped DEF HandOver, history
  <2> QED BY <2>1, <2>2
<1>5. CASE Restart
  <2>1. GateKeys' = {} /\ hand'.key = NoKey /\ written' = {} /\ at' = "wait" /\ NoDup(gate')
    BY <1>5, GateMoves, NoHandTyped DEF Restart
  <2> QED BY <2>1
<1>6. CASE Sweep
  <2>1. GateKeys' = GateKeys /\ gate' = gate
    BY <1>6, GateMoves DEF Sweep
  <2> QED BY <1>6, <2>1 DEF Sweep
<1>7. CASE Drain
  <2>1. GateKeys' = {} /\ NoDup(gate') /\ written' = written /\ at' = "push"
    BY <1>7, GateMoves DEF Drain
  <2>2. hand'.key # NoKey
    BY <1>7, DrainRows DEF Typed
  <2>3. hand'.key \notin written
    BY <1>7, FreshKey DEF Present
  <2> QED BY <2>1, <2>2, <2>3
<1> QED BY <1>1, <1>2, <1>3, <1>4, <1>5, <1>6, <1>7, StepKinds

\* Neither the drainer's claim nor its push touches what is under way.
LEMMA DrainerKeeps ==
  ASSUME Drain \/ HandOver
  PROVE  /\ \A k : /\ Carried(k)' <=> Carried(k)
                   /\ Doomed(k)' <=> Doomed(k)
         /\ UNCHANGED <<stdin, heard, written, again, blind>>
BY DEF Drain, HandOver, Carried, Doomed, Told, Dropping, ToReturn, cliVars, history

LEMMA RestartEmpties ==
  ASSUME Restart
  PROVE  /\ \A k : ~Carried(k)' /\ ~Doomed(k)' /\ (Waiting(k)' => k = NoKey)
         /\ heard' = heard /\ again' = again /\ blind \subseteq blind'
         /\ \A r \in Rows : row[r].st = "claimed" /\ row[r].key \in written => r \in blind'
<1>1. /\ stdin' = {} /\ unstarted' = {} /\ turn' = {} /\ stopping' = NoStop /\ hand' = NoHand /\ gate' = <<>>
      /\ ToSet(events') = {} /\ ToSet(inbox') = {}
      /\ heard' = heard /\ again' = again
      /\ blind' = blind \cup {r \in In(row, {"claimed"}) : Out(row[r].key)}
  BY ToSetSmall DEF Restart
<1>2. ToSet(gate') = {}
  BY <1>1, ToSetSmall
<1>3. \A k : ~Carried(k)' /\ ~Doomed(k)'
  BY <1>1, NoStopTyped DEF Carried, Doomed, Told, Dropping, ToReturn
<1>4. \A k : Waiting(k)' => k = NoKey
  BY <1>1, <1>2, NoHandTyped DEF Waiting, GateKeys
<1> QED BY <1>1, <1>3, <1>4 DEF In, Out

LEMMA OnTheWaySteps == ASSUME Typed, OnTheWay, [Next]_vars PROVE OnTheWay'
<1> USE DEF OnTheWay
<1>1. CASE Quiet
  BY <1>1 DEF Quiet
<1>2. CASE Writes
  BY <1>2 DEF Writes
<1>3. CASE (\E x \in stdin : Begins(x)) \/ Sweep
  BY <1>3 DEF Begins, Sweep
<1>4. CASE Drain \/ HandOver
  BY <1>4, DrainerKeeps
<1>5. CASE Restart
  BY <1>5, RestartEmpties
<1> QED BY <1>1, <1>2, <1>3, <1>4, <1>5, StepKinds

LEMMA AgainSteps == ASSUME Typed, Apart, again = {}, [Next]_vars PROVE again' = {}
<1>1. CASE Writes
  <2>1. Head(gate) \notin written
    BY <1>1, GateMoves DEF Writes, Apart
  <2> QED BY <1>1, <2>1 DEF Writes
<1>2. CASE Quiet \/ (\E x \in stdin : Begins(x)) \/ Sweep
  BY <1>2 DEF Quiet, Begins, Sweep
<1>3. CASE Drain \/ HandOver
  BY <1>3, DrainerKeeps
<1>4. CASE Restart
  BY <1>4, RestartEmpties
<1> QED BY <1>1, <1>2, <1>3, <1>4, StepKinds

\* A pair of a key names the row and the attempt.
LEMMA PairOf ==
  ASSUME NEW k \in Keys, NEW r \in Rows, \E pair \in k : pair[1] = r
  PROVE  \E n \in Nat : <<r, n>> \in k
<1>1. PICK pair \in k : pair[1] = r
  OBVIOUS
<1>2. pair \in Rows \X Nat
  BY DEF Keys
<1> QED BY <1>1, <1>2

\* The agent started on no row of a line that is not with it yet.
LEMMA UnheardInGate ==
  ASSUME Inv, NEW r \in Rows \ blind, row[r].key \in GateKeys
  PROVE  heard[r] = {}
<1>1. row[r].key # NoKey /\ row[r].key \in Keys /\ row[r].tries \in Nat
  BY KeyOfRow DEF Inv, Apart
<1>2. <<r, row[r].tries>> \in row[r].key
  BY <1>1 DEF Inv, Keyed
<1>3. row[r].key \notin heard[r]
  BY <1>1, <1>2 DEF Inv, Lines, Waiting
<1> QED BY <1>3 DEF Inv, HeardOnce

\* A row that returns and was not put back blindly was not started on, and its
\* line is nowhere.
LEMMA ReturnsUnheard ==
  ASSUME Inv, [Next]_vars, NEW r \in Rows \ blind', Returns(row, row', r), Reason(r)
  PROVE  heard[r] = {} /\ r \notin blind /\ (Sweep => ~Waiting(row[r].key))
<1>1. blind \subseteq blind'
  BY DrainerKeeps DEF Reason, Sweep
<1>2. row[r].st \in {"claimed", "sent"} /\ row[r].key \in Keys /\ row[r].key # NoKey
  BY KeyOfRow DEF Returns, Inv, Keyed
<1>3. heard[r] \subseteq {row[r].key}
  BY <1>1 DEF Inv, HeardOnce
<1>4. CASE Drain /\ row[r].key \in GateKeys
  <2>1. heard[r] = {}
    BY <1>1, <1>4, UnheardInGate
  <2>2. ~Sweep
    BY <1>4 DEF Sweep, Drain
  <2> QED BY <1>1, <2>1, <2>2
<1>5. CASE Sweep /\ Doomed(row[r].key)
  BY <1>1, <1>2, <1>3, <1>5 DEF Inv, Settling
<1>6. CASE /\ Sweep /\ at # "push" /\ row[r].st = "claimed"
           /\ row[r].key \notin written /\ row[r].key \notin GateKeys
  <2>1. heard[r] = {}
    BY <1>1, <1>6 DEF Inv, HeardOnce
  <2>2. hand.key = NoKey
    BY <1>6 DEF Inv, Apart
  <2>3. row[r].key \notin stdin
    BY <1>2, <1>6, DoomedIsPresent DEF Inv
  <2> QED BY <1>1, <1>2, <1>6, <2>1, <2>2, <2>3 DEF Waiting
<1> QED BY <1>4, <1>5, <1>6 DEF Reason

LEMMA BlindGrows == ASSUME Typed, [Next]_vars PROVE blind \subseteq blind'
BY StepKinds, DrainerKeeps, RestartEmpties DEF Quiet, Writes, Begins, Sweep

\* Where a line may wait after a step.
LEMMA WaitingMoves ==
  ASSUME Inv, NEW k \in Keys, k # NoKey, Waiting(k)'
  PROVE  /\ Quiet => Waiting(k) /\ (k \in stdin \ stdin' => FALSE)
         /\ Writes => Waiting(k)
         /\ Writes /\ UNCHANGED written => k # Head(gate)
         /\ \A x \in stdin : Begins(x) => Waiting(k) /\ k # x
         /\ HandOver \/ Sweep => Waiting(k)
         /\ ~Restart
         /\ Drain => k \in stdin \/ k = hand'.key
<1> USE DEF Waiting
<1>0. Typed /\ Apart /\ (k \in stdin => k \in written)
  BY DoomedIsPresent DEF Inv
<1>1. ASSUME Quiet PROVE Waiting(k) /\ (k \in stdin \ stdin' => FALSE)
  <2>1. GateKeys' \subseteq GateKeys
    BY <1>0, <1>1, GateMoves DEF Quiet
  <2> QED BY <1>0, <1>1, <2>1 DEF Quiet, Apart
<1>2. ASSUME Writes PROVE Waiting(k) /\ (UNCHANGED written => k # Head(gate))
  <2>1. GateKeys = {Head(gate)} \cup GateKeys' /\ Head(gate) \notin GateKeys'
    BY <1>0, <1>2, GateMoves DEF Writes, Apart
  <2>2. Waiting(k)
    BY <1>2, <2>1 DEF Writes
  <2>3. ASSUME UNCHANGED written, k = Head(gate) PROVE FALSE
    <3>1. k \notin written
      BY <1>0, <2>1, <2>3 DEF Apart
    <3>2. stdin' \subseteq stdin
      BY <1>2, <2>3, <3>1 DEF Writes
    <3> QED BY <1>0, <1>2, <2>1, <2>3, <3>1, <3>2 DEF Writes, Apart
  <2> QED BY <2>2, <2>3
<1>3. ASSUME NEW x \in stdin, Begins(x) PROVE Waiting(k) /\ k # x
  <2>1. GateKeys' = GateKeys
    BY <1>0, <1>3, GateMoves DEF Begins
  <2> QED BY <1>0, <1>3, <2>1 DEF Begins, Apart
<1>4. ASSUME HandOver PROVE Waiting(k)
  <2>1. GateKeys' \subseteq GateKeys \cup {hand.key} /\ hand'.key = NoKey /\ stdin' = stdin
    BY <1>0, <1>4, GateMoves, NoHandTyped, DrainerKeeps DEF HandOver
  <2> QED BY <2>1
<1>5. ASSUME Sweep PROVE Waiting(k)
  <2>1. GateKeys' = GateKeys
    BY <1>0, <1>5, GateMoves DEF Sweep
  <2> QED BY <1>5, <2>1 DEF Sweep
<1>6. ~Restart
  BY RestartEmpties
<1>7. ASSUME Drain PROVE k \in stdin \/ k = hand'.key
  <2>1. GateKeys' = {} /\ stdin' = stdin
    BY <1>0, <1>7, GateMoves, DrainerKeeps DEF Drain
  <2> QED BY <2>1
<1>8. \A x \in stdin : Begins(x) => Waiting(k) /\ k # x
  BY <1>3
<1> HIDE DEF Waiting
<1> QED BY <1>1, <1>2, <1>4, <1>5, <1>6, <1>7, <1>8

\* The agent started on no row that a batch takes up.
LEMMA ClaimsUnheard ==
  ASSUME Inv, Drain, NEW r \in Rows \ blind, Claims(r)
  PROVE  heard[r] = {}
<1>1. CASE row[r].st = "pending"
  BY <1>1 DEF Inv, Keyed, HeardOnce
<1>2. CASE row[r].key \in GateKeys
  BY <1>2, UnheardInGate
<1> QED BY <1>1, <1>2 DEF Claims

LEMMA LinesSteps == ASSUME Inv, [Next]_vars PROVE Lines'
<1> SUFFICES ASSUME NEW k \in Keys, Waiting(k)', NEW r \in Rows \ blind', NEW n \in Nat, <<r, n>> \in k
             PROVE  row'[r].key = k /\ k \notin heard'[r]
  BY DEF Lines
<1>0. k # NoKey /\ r \in Rows \ blind /\ Typed
  BY BlindGrows DEF NoKey, Inv
<1>1. Waiting(k) => row[r].key = k /\ k \notin heard[r]
  BY <1>0 DEF Inv, Lines
<1>2. CASE Quiet \/ Writes \/ HandOver
  <2>1. Waiting(k) /\ row' = row /\ heard' = heard
    BY <1>0, <1>2, WaitingMoves, DrainerKeeps DEF Quiet, Writes, HandOver
  <2> QED BY <1>1, <2>1
<1>3. ASSUME NEW x \in stdin, Begins(x) PROVE row'[r].key = k /\ k \notin heard'[r]
  <2>1. Waiting(k) /\ k # x /\ row' = row
    BY <1>0, <1>3, WaitingMoves DEF Begins
  <2>2. heard'[r] \subseteq heard[r] \cup {x}
    BY <1>0, <1>3 DEF Begins
  <2> QED BY <1>1, <2>1, <2>2
<1>4. CASE Sweep
  <2>1. Waiting(k) /\ heard' = heard
    BY <1>0, <1>4, WaitingMoves DEF Sweep
  <2>2. Stays(row, row', r) \/ (Returns(row, row', r) /\ Reason(r))
    BY <1>0, <1>4 DEF Sweep, Reason
  <2>3. ~(Returns(row, row', r) /\ Reason(r))
    BY <1>1, <1>4, <2>1, ReturnsUnheard
  <2> QED BY <1>1, <2>1, <2>2, <2>3 DEF Stays
<1>5. CASE Restart
  BY <1>0, <1>5, WaitingMoves
<1>6. CASE Drain
  <2>1. heard' = heard /\ row \in Table
    BY <1>0, <1>6, DrainerKeeps DEF Typed
  <2>2. CASE k = hand'.key
    <3>1. /\ <<r, n>>[1] = r /\ Claims(<<r, n>>[1])
      BY <1>6, <2>1, <2>2, DrainRows
    <3>2. Claims(r)
      BY <3>1
    <3>3. heard[r] = {}
      BY <1>0, <1>6, <3>2, ClaimsUnheard
    <3> QED BY <2>1, <2>2, <3>2, <3>3 DEF Claims
  <2>3. CASE k \in stdin
    <3>1. row[r].key = k /\ k \notin heard[r]
      BY <1>1, <2>3 DEF Waiting
    <3>2. k \notin GateKeys
      BY <2>3, DoomedIsPresent DEF Inv, Apart
    <3>3. row[r].st # "pending"
      BY <1>0, <3>1 DEF Inv, Keyed
    <3>4. row'[r] = row[r]
      BY <1>6, <2>1, <3>1, <3>2, <3>3, DrainRows DEF Claims
    <3> QED BY <2>1, <3>1, <3>4
  <2> QED BY <1>0, <1>6, <2>2, <2>3, WaitingMoves
<1> QED BY <1>0, <1>2, <1>3, <1>4, <1>5, <1>6, StepKinds

LEMMA HeardSteps == ASSUME Inv, [Next]_vars PROVE HeardOnce'
<1> SUFFICES ASSUME NEW r \in Rows \ blind'
             PROVE  /\ heard'[r] \subseteq {row'[r].key} \ {NoKey}
                    /\ row'[r].st = "claimed" /\ heard'[r] # {} => row'[r].key \in written'
  BY DEF HeardOnce
<1>0. r \in Rows \ blind /\ Typed
  BY BlindGrows DEF Inv
<1>1. /\ heard[r] \subseteq {row[r].key} \ {NoKey}
      /\ row[r].st = "claimed" /\ heard[r] # {} => row[r].key \in written
  BY <1>0 DEF Inv, HeardOnce
<1>2. CASE Quiet \/ Writes \/ HandOver
  <2>1. row' = row /\ heard' = heard /\ written \subseteq written'
    BY <1>2, DrainerKeeps DEF Quiet, Writes, HandOver
  <2> QED BY <1>1, <2>1
<1>3. ASSUME NEW x \in stdin, Begins(x)
      PROVE  /\ heard'[r] \subseteq {row'[r].key} \ {NoKey}
             /\ row'[r].st = "claimed" /\ heard'[r] # {} => row'[r].key \in written'
  <2>0. x \in Keys /\ x \in written /\ row' = row /\ written' = written
    BY <1>0, <1>3, DoomedIsPresent DEF Inv, Typed, Begins
  <2>1. CASE \E pair \in x : pair[1] = r
    <3>1. PICK n \in Nat : <<r, n>> \in x
      BY <1>0, <2>0, <2>1, PairOf
    <3>2. row[r].key = x /\ x # NoKey
      BY <1>0, <2>0, <3>1 DEF Inv, Lines, Waiting, NoKey
    <3>3. heard'[r] = heard[r] \cup {x}
      BY <1>0, <1>3, <2>1 DEF Begins
    <3> QED BY <1>1, <2>0, <3>2, <3>3
  <2>2. CASE ~ \E pair \in x : pair[1] = r
    <3>1. heard'[r] = heard[r]
      BY <1>0, <1>3, <2>2 DEF Begins
    <3> QED BY <1>1, <2>0, <3>1
  <2> QED BY <2>1, <2>2
<1>4. CASE Sweep
  <2>1. heard' = heard /\ written' = written
    BY <1>4 DEF Sweep
  <2>2. CASE Stays(row, row', r)
    BY <1>1, <2>1, <2>2 DEF Stays
  <2>3. CASE Returns(row, row', r) /\ Reason(r)
    BY <2>1, <2>3, ReturnsUnheard DEF Returns
  <2> QED BY <1>0, <1>4, <2>2, <2>3 DEF Sweep, Reason
<1>5. CASE Restart
  <2>1. heard' = heard /\ row' = TakeOver(row) /\ (row[r].st = "claimed" => row[r].key \notin written)
    BY <1>0, <1>5, RestartEmpties DEF Restart
  <2>2. /\ row[r].st = "claimed" => heard[r] = {} /\ row'[r].st = "pending"
        /\ row[r].st # "claimed" => row'[r].st # "claimed" /\ row'[r].key = row[r].key
    BY <1>0, <1>1, <2>1, TakeOverRows DEF Typed
  <2> QED BY <1>1, <2>1, <2>2
<1>6. CASE Drain
  <2>1. heard' = heard /\ written' = written
    BY <1>6, DrainerKeeps
  <2>2. CASE row'[r] = row[r]
    BY <1>1, <2>1, <2>2
  <2>3. CASE Returns(row, row', r) /\ row[r].key \in GateKeys
    BY <1>0, <2>1, <2>3, UnheardInGate
  <2>4. CASE Claims(r)
    BY <1>0, <1>6, <2>1, <2>4, ClaimsUnheard
  <2> QED BY <1>0, <1>6, <2>2, <2>3, <2>4, DrainRows DEF Typed
<1> QED BY <1>0, <1>2, <1>3, <1>4, <1>5, <1>6, StepKinds

LEMMA SettlingSteps == ASSUME Inv, [Next]_vars PROVE Settling'
<1> SUFFICES ASSUME NEW r \in Rows \ blind', row'[r].st \in {"claimed", "sent"},
                    NEW k, k = row'[r].key, Doomed(k)'
             PROVE  ~Waiting(k)' /\ k \notin heard'[r]
  BY DEF Settling
<1>0. r \in Rows \ blind /\ Typed /\ k \in Keys /\ k # NoKey
  <2>1. Typed' /\ Keyed'
    BY StaysTyped, KeyedSteps DEF Inv
  <2>2. k \in Keys
    BY <2>1 DEF Typed, Table, Row
  <2> QED BY <2>1, <2>2, BlindGrows DEF Inv, Keyed
<1>1. row[r].st \in {"claimed", "sent"} /\ row[r].key = k /\ Doomed(k) => ~Waiting(k) /\ k \notin heard[r]
  BY <1>0 DEF Inv, Settling
<1>2. row[r].key = k /\ Waiting(k) => k \notin heard[r]
  <2>1. row[r].key = k => row[r].tries \in Nat /\ <<r, row[r].tries>> \in k
    BY <1>0, KeyOfRow DEF Inv, Keyed
  <2> QED BY <1>0, <2>1 DEF Inv, Lines
<1>3. CASE Quiet
  <2>1. row[r].st \in {"claimed", "sent"} /\ row[r].key = k /\ heard' = heard
    BY <1>3 DEF Quiet
  <2>2. Doomed(k) \/ k \in stdin \ stdin'
    <3>1. ~LeftBlind(k)
      BY <2>1 DEF LeftBlind
    <3> QED BY <1>0, <1>3, <3>1 DEF Quiet
  <2>3. CASE Doomed(k)
    BY <1>0, <1>1, <1>3, <2>1, <2>3, WaitingMoves
  <2>4. CASE k \in stdin \ stdin'
    <3>1. ~Waiting(k)'
      BY <1>0, <1>3, <2>4, WaitingMoves
    <3>2. Waiting(k)
      BY <2>4 DEF Waiting
    <3> QED BY <1>2, <2>1, <3>1, <3>2
  <2> QED BY <2>2, <2>3, <2>4
<1>4. CASE Writes
  <2>1. row[r].st \in {"claimed", "sent"} /\ row[r].key = k /\ heard' = heard
    BY <1>4 DEF Writes
  <2>2. CASE Doomed(k)
    BY <1>0, <1>1, <1>4, <2>1, <2>2, WaitingMoves
  <2>3. CASE ~Doomed(k)
    <3>1. UNCHANGED written /\ k = Head(gate)
      BY <1>0, <1>4, <2>3 DEF Writes
    <3>2. ~Waiting(k)'
      BY <1>0, <1>4, <3>1, WaitingMoves
    <3>3. Waiting(k)
      BY <1>0, <1>4, <3>1, GateMoves DEF Writes, Waiting
    <3> QED BY <1>2, <2>1, <3>2, <3>3
  <2> QED BY <2>2, <2>3
<1>5. ASSUME NEW x \in stdin, Begins(x) PROVE ~Waiting(k)' /\ k \notin heard'[r]
  <2>1. row[r].st \in {"claimed", "sent"} /\ row[r].key = k /\ Doomed(k)
    BY <1>0, <1>5 DEF Begins
  <2>2. ~Waiting(k) /\ k \notin heard[r]
    BY <1>1, <2>1
  <2>3. k # x
    BY <2>2 DEF Waiting
  <2>4. heard'[r] \subseteq heard[r] \cup {x}
    BY <1>0, <1>5 DEF Begins
  <2> QED BY <1>0, <1>5, <2>2, <2>3, <2>4, WaitingMoves
<1>6. CASE HandOver
  <2>1. row' = row /\ heard' = heard /\ Doomed(k)
    BY <1>6, DrainerKeeps DEF HandOver
  <2> QED BY <1>0, <1>1, <1>6, <2>1, WaitingMoves
<1>7. CASE Restart
  BY <1>7, RestartEmpties
<1>8. CASE Sweep
  <2>1. Doomed(k) /\ heard' = heard
    BY <1>0, <1>8 DEF Sweep
  <2>2. Stays(row, row', r) \/ Returns(row, row', r)
    BY <1>0, <1>8 DEF Sweep
  <2>3. row[r].st \in {"claimed", "sent"} /\ row[r].key = k
    BY <2>2 DEF Stays, Returns
  <2> QED BY <1>0, <1>1, <1>8, <2>1, <2>3, WaitingMoves
<1>9. CASE Drain
  <2>1. Doomed(k) /\ heard' = heard
    BY <1>9, DrainerKeeps
  <2>2. Present(k)
    BY <1>0, <2>1, DoomedIsPresent DEF Inv
  <2>3. k # hand'.key
    BY <1>9, <2>2, FreshKey DEF Inv
  <2>4. row'[r] = row[r]
    BY <1>0, <1>9, <2>3, DrainRows DEF Typed, Claims, Returns
  <2>5. ~Waiting(k) /\ k \notin heard[r]
    BY <1>1, <2>1, <2>4
  <2>6. k \notin stdin
    BY <2>5 DEF Waiting
  <2> QED BY <1>0, <1>9, <2>1, <2>3, <2>5, <2>6, WaitingMoves
<1> QED BY <1>0, <1>3, <1>4, <1>5, <1>6, <1>7, <1>8, <1>9, StepKinds

LEMMA InitInv == Init => Inv
<1> SUFFICES ASSUME Init PROVE Inv
  OBVIOUS
<1>1. /\ row = [r \in Rows |-> NoRow] /\ gate = <<>> /\ written = {} /\ hand = NoHand /\ at = "wait"
      /\ stdin = {} /\ unstarted = {} /\ stopping = NoStop /\ turn = {} /\ again = {} /\ blind = {}
      /\ heard = [r \in Rows |-> {}]
  BY DEF Init
<1>2. GateKeys = {} /\ ToSet(events) = {} /\ ToSet(inbox) = {} /\ NoDup(gate)
  BY ToSetSmall, NoDupEmpty DEF Init, GateKeys
<1>3. \A r \in Rows : row[r].st = "none" /\ row[r].key = NoKey
  BY <1>1 DEF NoRow
<1>4. hand.key = NoKey
  BY <1>1, NoHandTyped
<1>5. \A k : ~Carried(k) /\ ~Doomed(k) /\ (Waiting(k) \/ Present(k) => k = NoKey)
  BY <1>1, <1>2, <1>4, NoStopTyped DEF Carried, Doomed, Told, Dropping, ToReturn, Waiting, Present, Reported
<1>6. Typed /\ Keyed
  BY <1>3, InitTyped DEF Keyed
<1>7. Apart
  BY <1>1, <1>2, <1>4 DEF Apart
<1>8. Dated /\ OnTheWay /\ Lines
  BY <1>5 DEF Dated, OnTheWay, Lines, NoKey
<1>9. HeardOnce /\ Settling
  BY <1>1, <1>5 DEF HeardOnce, Settling
<1> QED BY <1>1, <1>6, <1>7, <1>8, <1>9 DEF Inv

\* The inductive invariant: a key stands for its rows at one attempt, is in one
\* place at a time and comes up once, and what the agent started on is under
\* the key its row still has.
THEOREM Invariance == Spec => []Inv
<1>1. Inv /\ [Next]_vars => Inv'
  <2> SUFFICES ASSUME Inv, [Next]_vars PROVE Inv'
    OBVIOUS
  <2>1. Typed' /\ Keyed' /\ Dated' /\ Apart'
    BY StaysTyped, KeyedSteps, DatedSteps, ApartSteps DEF Inv
  <2>2. OnTheWay' /\ again' = {}
    BY OnTheWaySteps, AgainSteps DEF Inv
  <2>3. Lines' /\ HeardOnce' /\ Settling'
    BY LinesSteps, HeardSteps, SettlingSteps
  <2> QED BY <2>1, <2>2, <2>3 DEF Inv
<1> QED BY InitInv, <1>1, PTL DEF Spec

\* A row the drainer may hand out, or has handed out and could take back, is
\* one the agent has not started on: whatever the order of reports, receipts,
\* Stops and sweeps, the table never owes what was taken.
THEOREM TakenIsNotOwed == Spec => []NothingTakenIsOwed
<1>1. Inv => NothingTakenIsOwed
  BY DEF Inv, HeardOnce, Keyed, NothingTakenIsOwed
<1> QED BY Invariance, <1>1, PTL

\* The agent starts on an event under one key at most, but for the rows that
\* were put back although their line was out.
THEOREM StartedOnce == Spec => []AtMostOnce
<1>1. Inv => AtMostOnce
  <2> SUFFICES ASSUME Inv, NEW r \in Rows \ blind PROVE Cardinality(heard[r]) <= 1
    BY DEF AtMostOnce
  <2>1. heard[r] \subseteq {row[r].key}
    BY DEF Inv, HeardOnce
  <2>2. IsFiniteSet({row[r].key}) /\ Cardinality({row[r].key}) = 1
    BY FS_Singleton
  <2>3. Cardinality(heard[r]) <= Cardinality({row[r].key})
    BY <2>1, <2>2, FS_Subset
  <2> QED BY <2>2, <2>3
<1> QED BY Invariance, <1>1, PTL

\* Within one life of the host no key is written to the agent twice.
THEOREM KeysAreWrittenOnce == Spec => []NoKeyTwice
<1>1. Inv => NoKeyTwice
  BY DEF Inv, NoKeyTwice
<1> QED BY Invariance, <1>1, PTL

-----------------------------------------------------------------------------
(* Nobody loses a claim.                                                   *)

Held ==
  \A r \in Rows \ strayed :
    row[r].st = "claimed" =>
      /\ linked # 0
      /\ \/ row[r].key \in GateKeys \/ row[r].key = hand.key
         \/ Reported(row[r].key)
         \/ linked # inc

\* A batch in hand is for the session that is linked.
HandGone ==
  /\ hand.gone => linked # inc /\ at = "push"
  /\ at = "push" => linked # 0

LEMMA HeldWhen ==
  ASSUME Held, UNCHANGED <<strayed, linked, inc, gate>>, hand'.key = hand.key,
         \A k : Reported(k) => Reported(k)',
         \A r \in Rows : row'[r].st = "claimed" => row[r].st = "claimed" /\ row'[r].key = row[r].key
  PROVE  Held'
<1>1. GateKeys' = GateKeys
  BY DEF GateKeys
<1> SUFFICES ASSUME NEW r \in Rows \ strayed, row'[r].st = "claimed"
             PROVE  /\ linked # 0
                    /\ \/ row[r].key \in GateKeys \/ row[r].key = hand.key
                       \/ Reported(row[r].key)
                       \/ linked # inc
  BY <1>1 DEF Held
<1> QED BY DEF Held

LEMMA HeldSteps ==
  ASSUME Inv, Held, HandGone, [Next]_vars
  PROVE  Held'
<1>0. Typed /\ row \in Table /\ inbox \in Seq(Report) /\ incs \in Nat /\ inc \in 0..incs /\ linked \in 0..incs
  BY DEF Inv, Typed
<1>1. CASE UNCHANGED vars \/ End \/ Output \/ Stop \/ TakeBack \/ Finish \/ Exit \/ Respawn
  <2>1. UNCHANGED <<row, strayed, linked, inc, gate, hand, inbox>>
    BY <1>1 DEF vars, End, Output, Stop, TakeBack, Finish, Exit, Respawn, history, gateVars, cliVars, drainVars
  <2> QED BY <2>1, HeldWhen DEF Reported
<1>2. CASE (\E k \in stdin : Begin(k)) \/ (\E r \in Rows : Record(r)) \/ (\E r \in Rows : BackoffOver(r))
  <2>1. UNCHANGED <<strayed, linked, inc, gate, hand, inbox>>
    BY <1>2 DEF Begin, Record, BackoffOver, history, gateVars, drainVars
  <2>2. ASSUME NEW s \in Rows, row' = [row EXCEPT ![s].st = "pending"] \/ row' = [row EXCEPT ![s].rests = FALSE]
        PROVE  \A r \in Rows : row'[r].st = "claimed" => row[r].st = "claimed" /\ row'[r].key = row[r].key
    BY <1>0, <2>2 DEF Table, Row
  <2>3. \/ row' = row
        \/ \E s \in Rows : row' = [row EXCEPT ![s].st = "pending"] \/ row' = [row EXCEPT ![s].rests = FALSE]
    BY <1>2 DEF Begin, Record, BackoffOver, Push
  <2>4. \A r \in Rows : row'[r].st = "claimed" => row[r].st = "claimed" /\ row'[r].key = row[r].key
    BY <2>2, <2>3
  <2> QED BY <2>1, <2>4, HeldWhen DEF Reported
<1>3. ASSUME NEW k \in awaiting, Lapse(k) PROVE Held'
  <2>1. UNCHANGED <<strayed, linked, inc, gate, hand, inbox>>
    BY <1>3 DEF Lapse, history, gateVars
  <2>2. \A r \in Rows : row'[r].st = "claimed" => row[r].st = "claimed" /\ row'[r].key = row[r].key
    BY <1>0, <1>3, SetRows DEF Lapse, MarkUnconfirmed, RowStates
  <2> QED BY <2>1, <2>2, HeldWhen DEF Reported
<1>4. CASE Settle
  <2>1. UNCHANGED <<strayed, linked, inc, gate, hand, inbox>>
    BY <1>4 DEF Settle, history, gateVars
  <2>2. \A r \in Rows : row'[r].st = "claimed" => row[r].st = "claimed" /\ row'[r].key = row[r].key
    BY <1>0, <1>4, SetRows DEF Settle, SettleUndeliverable, RowStates
  <2> QED BY <2>1, <2>2, HeldWhen DEF Reported
<1>5. CASE TakeEvent \/ GiveUp \/ StopReply
  <2>1. UNCHANGED <<row, strayed, linked, inc, gate, hand>>
    BY <1>5 DEF TakeEvent, GiveUp, StopReply, history, drainVars
  <2>2. \A k : Reported(k) => Reported(k)'
    <3>1. CASE inbox' = inbox
      BY <3>1 DEF Reported
    <3>2. ASSUME NEW m \in Kinds, NEW keys \in SUBSET Keys, Post(m, keys) PROVE \A k : Reported(k) => Reported(k)'
      BY <1>0, <3>2, PostSays
    <3>3. CASE TakeEvent
      <4>1. PICK m \in {"accepted", "dropped", "delivered"} : Ingest(m, Head(events).keys)
        BY <3>3 DEF TakeEvent
      <4>2. Head(events) \in Event
        BY <1>0, <3>3, ToSetTail DEF TakeEvent, Typed
      <4>3. Head(events).keys \in SUBSET Keys
        BY <4>2 DEF Event
      <4> QED BY <1>0, <4>1, <4>3, IngestSays DEF Kinds
    <3>4. CASE GiveUp
      <4>1. inbox' = inbox \/ Post("failed", unstarted)
        BY <3>4 DEF GiveUp
      <4>2. unstarted \in SUBSET Keys /\ "failed" \in Kinds
        BY <1>0 DEF Typed, Kinds
      <4> QED BY <3>1, <3>2, <4>1, <4>2
    <3>5. CASE StopReply
      <4>1. Post("taken", stopping.taken)
        BY <3>5 DEF StopReply
      <4>2. stopping.taken \in SUBSET Keys /\ "taken" \in Kinds
        BY <1>0 DEF Typed, Kinds
      <4> QED BY <3>2, <4>1, <4>2
    <3> QED BY <1>5, <3>3, <3>4, <3>5
  <2> QED BY <2>1, <2>2, HeldWhen
<1>6. ASSUME UNCHANGED <<strayed, linked, inc, row>>, Writes, NEW k, k = Head(gate),
             \A x : Reported(x) \/ x = k => Reported(x)'
      PROVE  Held'
  <2>1. GateKeys = {k} \cup GateKeys' /\ hand'.key = hand.key
    BY <1>0, <1>6, GateMoves DEF Writes
  <2> SUFFICES ASSUME NEW r \in Rows \ strayed, row[r].st = "claimed"
               PROVE  /\ linked # 0
                      /\ \/ row[r].key \in GateKeys' \/ row[r].key = hand.key
                         \/ Reported(row[r].key) \/ row[r].key = k
                         \/ linked # inc
    BY <1>6, <2>1 DEF Held
  <2> QED BY <2>1 DEF Held
<1>7. ASSUME UNCHANGED <<row, strayed, linked>>, linked # 0 => linked # inc' PROVE Held'
  BY <1>7 DEF Held
<1>8. CASE Flush \/ SteerLine
  <2>1. UNCHANGED <<strayed, linked, inc, row>>
    BY <1>8 DEF Flush, SteerLine, drainVars
  <2> QED BY <1>0, <1>6, <1>8, <2>1, WriteSteps
<1>9. CASE UserSend
  <2>1. UNCHANGED <<strayed, linked, row, hand>> /\ inc' = (IF inc # 0 THEN inc ELSE incs + 1)
    BY <1>9 DEF UserSend, Bound, drainVars
  <2>2. CASE inc = 0
    BY <1>0, <1>7, <2>1, <2>2
  <2>3. CASE inc # 0 /\ hold # "none" /\ gate # <<>>
    BY <1>0, <1>6, <1>9, <2>1, <2>3, WriteSteps
  <2>4. CASE inc # 0 /\ ~(hold # "none" /\ gate # <<>>)
    <3>1. UNCHANGED <<inbox, gate, inc>>
      BY <1>9, <2>1, <2>4 DEF UserSend
    <3> QED BY <2>1, <3>1, HeldWhen DEF Reported
  <2> QED BY <2>2, <2>3, <2>4
<1>10. CASE Disconnect \/ TabClose \/ Bind
  <2>1. UNCHANGED <<row, strayed, linked>> /\ inc' \in {0, incs + 1}
    BY <1>10 DEF Disconnect, TabClose, Unbind, Bind, history, drainVars
  <2> QED BY <1>0, <1>7, <2>1
<1>11. CASE HandOver
  <2>1. /\ UNCHANGED <<row, strayed, linked, inc, inbox>> /\ at = "push"
        /\ gate' = IF hand.gone THEN gate ELSE Append(gate, hand.key)
    BY <1>11 DEF HandOver, history
  <2>2. ~hand.gone => GateKeys' = GateKeys \cup {hand.key}
    BY <1>0, <2>1, ToSetAppend DEF Typed, GateKeys
  <2>3. hand.gone => linked # 0 /\ linked # inc
    BY <2>1 DEF HandGone
  <2> SUFFICES ASSUME NEW r \in Rows \ strayed, row[r].st = "claimed"
               PROVE  /\ linked # 0
                      /\ \/ row[r].key \in GateKeys'
                         \/ Reported(row[r].key)
                         \/ linked # inc
    BY <2>1 DEF Held, Reported
  <2> QED BY <2>2, <2>3 DEF Held
<1>12. CASE Tick
  <2>1. UNCHANGED <<strayed, inc, gate, hand, inbox>> /\ LetGo(row)
    BY <1>12 DEF Tick, gateVars
  <2>2. \A r \in Rows : row'[r].st = "claimed" =>
          row[r].st = "claimed" /\ row'[r].key = row[r].key /\ linked' = linked
    BY <1>0, <2>1, LetGoRows DEF Stays, Returns
  <2>3. CASE linked' = linked
    BY <2>1, <2>2, <2>3, HeldWhen DEF Reported
  <2>4. CASE linked' # linked
    BY <2>2, <2>4 DEF Held
  <2> QED BY <2>3, <2>4
<1>13. CASE Handle
  <2> DEFINE m == Head(inbox).m
             keys == Head(inbox).keys
             t == Settled(m, keys)
  <2>1. UNCHANGED <<strayed, inc, gate, hand>> /\ LetGo(t) /\ inbox # <<>> /\ inbox' = Tail(inbox)
    BY <1>13 DEF Handle, gateVars
  <2>2. Head(inbox) \in Report /\ ToSet(inbox) = {Head(inbox)} \cup ToSet(inbox')
    BY <1>0, <2>1, ToSetTail
  <2>3. m \in Kinds
    BY <2>2 DEF Report
  <2>4. \A k : Reported(k) => Reported(k)' \/ k \in keys
    BY <2>2 DEF Reported
  <2>5. /\ t \in Table
        /\ \A r \in Rows : /\ Stays(row, t, r) \/ Returns(row, t, r)
                           /\ t[r].st = "claimed" => row[r].st = "claimed" /\ row[r].key \notin keys
    BY <1>0, <2>3, SettledRows
  <2> HIDE DEF t, m, keys
  <2>6. GateKeys' = GateKeys
    BY <2>1 DEF GateKeys
  <2> SUFFICES ASSUME NEW r \in Rows \ strayed, row'[r].st = "claimed"
               PROVE  /\ linked' # 0
                      /\ \/ row'[r].key \in GateKeys \/ row'[r].key = hand.key
                         \/ \E x \in ToSet(inbox') : row'[r].key \in x.keys
                         \/ linked' # inc
    BY <2>1, <2>6 DEF Held, Reported
  <2>7. t[r].st = "claimed" /\ linked' = linked /\ row'[r].key = t[r].key
    BY <2>1, <2>5, LetGoRows DEF Stays, Returns
  <2>8. row[r].st = "claimed" /\ row[r].key \notin keys /\ t[r].key = row[r].key
    BY <2>5, <2>7 DEF Stays, Returns
  <2>9. PICK k : k = row[r].key
    OBVIOUS
  <2>10. linked # 0 /\ (k \in GateKeys \/ k = hand.key \/ Reported(k) \/ linked # inc)
    BY <2>8, <2>9 DEF Held
  <2>11. Reported(k) => Reported(k)'
    BY <2>4, <2>8, <2>9
  <2> QED BY <2>7, <2>8, <2>9, <2>10, <2>11 DEF Reported
<1>14. CASE LinkInFlight
  <2>1. UNCHANGED <<row, inc, gate, hand, inbox>>
    BY <1>14 DEF LinkInFlight, gateVars
  <2>2. CASE UNCHANGED <<linked, strayed>>
    BY <2>1, <2>2, HeldWhen DEF Reported
  <2>3. CASE inc # 0 /\ Link
    <3>1. linked' = inc /\ strayed \subseteq strayed'
      BY <2>3 DEF Link
    <3>2. linked # inc => \A r \in Rows \ strayed' : row[r].st # "claimed"
      BY <2>3 DEF Link, Held, In
    <3>3. CASE linked = inc
      <4>1. UNCHANGED <<linked, strayed>>
        BY <2>3, <3>1, <3>3 DEF Link
      <4> QED BY <2>2, <4>1
    <3>4. CASE linked # inc
      BY <2>1, <3>2, <3>4 DEF Held
    <3> QED BY <3>3, <3>4
  <2> QED BY <1>14, <2>2, <2>3 DEF LinkInFlight, Bound
<1>15. CASE Drain
  <2>1. UNCHANGED <<inc, inbox>> /\ inc # 0 /\ Link /\ at = "link"
    BY <1>15 DEF Drain, Bound
  <2>2. linked' = inc /\ strayed \subseteq strayed'
    BY <2>1 DEF Link
  <2>3. linked # inc => \A r \in Rows \ strayed' : row[r].st # "claimed"
    BY <2>1 DEF Link, Held, In
  <2>4. hand.key = NoKey
    BY <2>1 DEF Inv, Apart
  <2> SUFFICES ASSUME NEW r \in Rows \ strayed', row'[r].st = "claimed"
               PROVE  row'[r].key = hand'.key \/ \E x \in ToSet(inbox) : row'[r].key \in x.keys
    BY <2>1, <2>2 DEF Held, Reported
  <2>5. (row'[r] = row[r] /\ row[r].key \notin GateKeys) \/ Claims(r)
    BY <1>0, <1>15, DrainRows DEF Returns
  <2>6. CASE row'[r] = row[r] /\ row[r].key \notin GateKeys
    <3>1. row[r].key # NoKey
      BY <2>6 DEF Inv, Keyed
    <3>2. Reported(row[r].key)
      BY <2>2, <2>3, <2>4, <2>6, <3>1 DEF Held
    <3> QED BY <2>1, <2>6, <3>2 DEF Reported
  <2> QED BY <2>5, <2>6 DEF Claims
<1>16. CASE Restart
  <2>1. \A r \in Rows : row'[r].st # "claimed"
    BY <1>0, <1>16, TakeOverRows DEF Restart
  <2> QED BY <2>1 DEF Held
<1> QED BY <1>1, <1>2, <1>3, <1>4, <1>5, <1>8, <1>9, <1>10, <1>11, <1>12, <1>13, <1>14, <1>15, <1>16
        DEF Next, View, User, Drainer

LEMMA HandGoneSteps == ASSUME Inv, HandGone, [Next]_vars PROVE HandGone'
<1>0. Typed /\ incs \in Nat /\ inc \in 0..incs /\ linked \in 0..incs /\ hand \in [key : Keys, gone : BOOLEAN]
  BY DEF Inv, Typed
<1>1. ASSUME UNCHANGED <<hand, at, linked, inc>> PROVE HandGone'
  BY <1>1 DEF HandGone
<1>2. CASE UNCHANGED vars \/ End \/ Flush \/ SteerLine \/ Output \/ TakeEvent \/ GiveUp \/ Stop \/ TakeBack
  BY <1>1, <1>2 DEF vars, End, Flush, SteerLine, Output, TakeEvent, GiveUp, Stop, TakeBack, drainVars
<1>3. CASE StopReply \/ Finish \/ Exit \/ Respawn \/ (\E k \in stdin : Begin(k)) \/ (\E r \in Rows : Record(r) \/ BackoffOver(r))
  BY <1>1, <1>3 DEF StopReply, Finish, Exit, Respawn, Begin, Record, BackoffOver, drainVars
<1>4. CASE \E k \in awaiting : Lapse(k)
  BY <1>1, <1>4 DEF Lapse
<1>5. CASE UserSend
  <2>1. UNCHANGED <<hand, at, linked>> /\ inc' = (IF inc # 0 THEN inc ELSE incs + 1)
    BY <1>5 DEF UserSend, Bound, drainVars
  <2> QED BY <1>0, <2>1 DEF HandGone
<1>6. CASE Disconnect \/ Bind
  <2>1. UNCHANGED <<hand, at, linked>> /\ inc' \in {0, incs + 1}
    BY <1>6 DEF Disconnect, Unbind, Bind, drainVars
  <2> QED BY <1>0, <2>1 DEF HandGone
<1>7. CASE TabClose
  <2>1. UNCHANGED <<at, linked>> /\ inc' = 0 /\ hand' = IF hand = NoHand THEN hand ELSE [hand EXCEPT !.gone = TRUE]
    BY <1>7 DEF TabClose, Unbind
  <2>2. CASE at = "push"
    BY <1>0, <2>1, <2>2 DEF HandGone
  <2>3. CASE at # "push"
    <3>1. hand.key = NoKey /\ ~hand.gone
      BY <2>3 DEF Inv, Apart, HandGone
    <3>2. hand = NoHand
      BY <1>0, <3>1 DEF NoHand
    <3> QED BY <2>1, <2>3, <3>1, <3>2 DEF HandGone
  <2> QED BY <2>2, <2>3
<1>8. CASE Restart \/ HandOver
  <2>1. hand' = NoHand /\ at' = "wait"
    BY <1>8 DEF Restart, HandOver
  <2> QED BY <2>1, NoHandTyped DEF HandGone
<1>9. CASE Handle \/ Tick \/ LinkInFlight \/ Settle
  <2>1. hand' = hand /\ at # "push" /\ at' # "push"
    BY <1>9 DEF Handle, Tick, LinkInFlight, Settle
  <2> QED BY <2>1 DEF HandGone
<1>10. CASE Drain
  <2>1. hand'.gone = FALSE /\ linked' = inc /\ inc # 0 /\ inc' = inc
    BY <1>10 DEF Drain, Link, Bound
  <2> QED BY <2>1 DEF HandGone
<1> QED BY <1>2, <1>3, <1>4, <1>5, <1>6, <1>7, <1>8, <1>9, <1>10 DEF Next, View, User, Drainer

\* No claim is lost: a claimed row's line is in the gate, in the drainer's
\* hand, in a report, or its session is one the drainer will find gone; what a
\* replaced link left behind is the one exception.
THEOREM ClaimsAreHeld == Spec => []ClaimIsHeld
<1>1. Init => Held /\ HandGone
  <2> SUFFICES ASSUME Init PROVE Held /\ HandGone
    OBVIOUS
  <2>1. \A r \in Rows : row[r].st # "claimed"
    BY DEF Init, NoRow
  <2> QED BY <2>1, NoHandTyped DEF Init, Held, HandGone
<1>2. Inv /\ Held /\ HandGone /\ [Next]_vars => Held' /\ HandGone'
  BY HeldSteps, HandGoneSteps
<1>3. Held => ClaimIsHeld
  BY DEF Held, ClaimIsHeld
<1> QED BY Invariance, <1>1, <1>2, <1>3, PTL DEF Spec
=============================================================================
