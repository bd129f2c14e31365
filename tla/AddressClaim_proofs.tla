------------------------ MODULE AddressClaim_proofs ------------------------
(***************************************************************************)
(* What holds of the network managers on one channel for every number of   *)
(* nodes, addresses, frames of other makes and refused sends.              *)
(***************************************************************************)
EXTENDS AddressClaim, Positions_proofs, SequenceTheorems

-----------------------------------------------------------------------------
(* Types *)

\* The fields of a frame, by its kind
LEMMA FrameFields ==
  ASSUME NEW f \in Frames
  PROVE  /\ f.kind \in {"claim", "request", "command", "other"}
         /\ f.kind = "claim" => f.name \in Node /\ f.src \in Slot
         /\ f.kind = "command" => f.name \in Node /\ f.new \in Slot
BY DEF Frames

\* The values that stand for no control function and for the partner
LEMMA Names == Partner \notin Node /\ NoCf \notin Cf /\ Matching \subseteq Node
BY ClaimAssumption

\* The frames a node of the stack sends
LEMMA SentFrames ==
  ASSUME NEW n \in Node, NEW a \in Slot
  PROVE  Claim(n, a) \in Frames /\ Request(Null, Global) \in Frames
BY DEF Frames, Claim, Request, Slot

\* The fields of a manager
LEMMA ManagerFields ==
  ASSUME NEW m \in Manager
  PROVE  /\ m.state \in State /\ m.preferred \in Slot
         /\ m.table \in [Slot -> Cf \cup {NoCf}] /\ m.address \in [Cf -> Slot]
         /\ m.flagged \in [Cf -> BOOLEAN] /\ m.inactive \in Seq(Cf)
         /\ m.requested \in BOOLEAN /\ m.partner \in {"none", "new", "known"}
         /\ m.bound \in Node \cup {NoCf}
BY DEF Manager

\* What the searches of the table and of the inactive list return
LEMMA KnownCfType ==
  ASSUME NEW m \in Manager, NEW k \in Node
  PROVE  /\ KnownCf(m, k) \in Cf \cup {NoCf}
         /\ KnownCf(m, k) # NoCf =>
              \/ \E a \in Address : m.table[a] = KnownCf(m, k)
              \/ KnownCf(m, k) \in Range(m.inactive)
<1> DEFINE slots == {a \in Address : m.table[a] # NoCf /\ NameOf(m, m.table[a]) = k}
           listed == {i \in DOMAIN m.inactive : NameOf(m, m.inactive[i]) = k}
<1>1. slots \in SUBSET Nat /\ listed \in SUBSET Nat
  <2>1. slots \in SUBSET Nat
    BY ClaimAssumption
  <2>2. m.inactive \in Seq(Cf)
    BY ManagerFields
  <2> QED BY <2>1, <2>2
<1>2. slots # {} => Min(slots) \in slots
  BY <1>1, Least
<1>3. listed # {} => Min(listed) \in listed
  BY <1>1, Least
<1>4. KnownCf(m, k) = CASE slots # {} -> m.table[Min(slots)]
                        [] slots = {} /\ listed # {} -> m.inactive[Min(listed)]
                        [] OTHER -> NoCf
  BY DEF KnownCf
<1> HIDE DEF slots, listed
<1>5. CASE slots # {}
  <2>1. KnownCf(m, k) = m.table[Min(slots)] /\ Min(slots) \in Address
    BY <1>2, <1>4, <1>5 DEF slots
  <2> QED BY <2>1, ManagerFields DEF Slot
<1>6. CASE slots = {} /\ listed # {}
  <2>1. KnownCf(m, k) = m.inactive[Min(listed)] /\ Min(listed) \in DOMAIN m.inactive
    BY <1>3, <1>4, <1>6 DEF listed
  <2>2. m.inactive \in Seq(Cf)
    BY ManagerFields
  <2>3. KnownCf(m, k) \in Cf
    BY <2>1, <2>2
  <2> QED BY <2>1, <2>3 DEF Range
<1> QED BY <1>4, <1>5, <1>6

LEMMA DispossessType ==
  ASSUME NEW m \in Manager, NEW n \in Stack, NEW cf \in Cf \cup {NoCf},
         NEW k \in Node, NEW a \in Slot
  PROVE  /\ Dispossess(m, n, cf, k, a) \in Manager
         /\ Dispossess(m, n, cf, k, a).table = m.table
         /\ Dispossess(m, n, cf, k, a).inactive = m.inactive
         /\ Dispossess(m, n, cf, k, a).partner = m.partner
         /\ Dispossess(m, n, cf, k, a).bound = m.bound
<1> DEFINE d == Dispossess(m, n, cf, k, a)
<1>1. PICK lost, state : /\ d = [m EXCEPT !.address = WithoutAddress(@, lost), !.state = state]
                         /\ state \in State
  BY ManagerFields DEF Dispossess, State
<1>2. WithoutAddress(m.address, lost) \in [Cf -> Slot]
  BY ManagerFields DEF WithoutAddress, Slot
<1> HIDE DEF d
<1>3. d \in Manager
  BY <1>1, <1>2 DEF Manager
<1>4. d.table = m.table /\ d.inactive = m.inactive /\ d.partner = m.partner /\ d.bound = m.bound
  BY <1>1 DEF Manager
<1> QED BY <1>3, <1>4 DEF d

LEMMA SettleType ==
  ASSUME NEW m \in Manager, NEW cf \in Cf \cup {NoCf}, NEW k \in Node, NEW a \in Slot
  PROVE  Settle(m, cf, k, a) \in Manager
BY ClaimAssumption, ManagerFields DEF Settle, Manager, Cf, Slot

LEMMA ClaimedType ==
  ASSUME NEW m \in Manager, NEW n \in Stack, NEW k \in Node, NEW a \in Slot
  PROVE  Claimed(m, n, k, a) \in Manager
<1> DEFINE cf == IF BindsPartner(m, k) THEN Partner ELSE KnownCf(m, k)
           bound == IF BindsPartner(m, k) THEN [m EXCEPT !.bound = k, !.table[a] = Partner] ELSE m
<1>1. cf \in Cf \cup {NoCf}
  BY KnownCfType DEF Cf
<1>2. bound \in Manager
  BY DEF Manager, Cf
<1>3. Claimed(m, n, k, a) = Settle(Dispossess(bound, n, cf, k, a), cf, k, a)
  BY DEF Claimed
<1> HIDE DEF cf, bound
<1>4. Dispossess(bound, n, cf, k, a) \in Manager
  BY <1>1, <1>2, DispossessType
<1> QED BY <1>1, <1>3, <1>4, SettleType

LEMMA ClaimInTableType ==
  ASSUME NEW m \in Manager, NEW a \in Slot
  PROVE  /\ ClaimInTable(m, a) \in Manager
         /\ Range(ClaimInTable(m, a).inactive) \subseteq
              Range(m.inactive) \cup {m.table[b] : b \in Slot}
         /\ \A b \in Slot : \/ ClaimInTable(m, a).table[b] = m.table[b]
                            \/ ClaimInTable(m, a).table[b] \in Range(m.inactive) \cup {m.table[a]}
<1> DEFINE target == m.table[a]
           evicted == target # NoCf /\ m.address[target] = Null
           inactive == IF evicted THEN Append(m.inactive, target) ELSE m.inactive
           waiting == {i \in DOMAIN inactive : m.address[inactive[i]] = a}
           c == ClaimInTable(m, a)
<1>1. /\ target \in Cf \cup {NoCf} /\ inactive \in Seq(Cf)
      /\ Range(inactive) \subseteq Range(m.inactive) \cup {target}
  BY ManagerFields DEF Range
<1>2. c = CASE target # NoCf /\ ~evicted -> [m EXCEPT !.flagged[target] = TRUE]
            [] (target = NoCf \/ evicted) /\ waiting # {} ->
                 [m EXCEPT !.inactive = inactive, !.table[a] = inactive[Min(waiting)]]
            [] OTHER -> [m EXCEPT !.inactive = inactive]
  BY DEF ClaimInTable
<1>3. waiting # {} => inactive[Min(waiting)] \in Cf \cap Range(inactive)
  <2> HIDE DEF inactive
  <2>1. waiting \in SUBSET Nat
    BY <1>1
  <2> SUFFICES ASSUME waiting # {} PROVE inactive[Min(waiting)] \in Cf \cap Range(inactive)
    OBVIOUS
  <2>2. Min(waiting) \in DOMAIN inactive
    BY <2>1, Least
  <2>3. inactive[Min(waiting)] \in Cf
    BY <1>1, <2>2
  <2> QED BY <2>2, <2>3 DEF Range
<1> HIDE DEF evicted, inactive, waiting, c
<1>4. /\ c \in Manager
      /\ c.inactive \in {m.inactive, inactive}
      /\ \A b \in Slot : \/ c.table[b] = m.table[b]
                         \/ waiting # {} /\ c.table[b] = inactive[Min(waiting)]
  <2>1. CASE target # NoCf /\ ~evicted
    BY <1>1, <1>2, <2>1, ManagerFields DEF Manager
  <2>2. CASE (target = NoCf \/ evicted) /\ waiting # {}
    BY <1>1, <1>2, <1>3, <2>2, ManagerFields DEF Manager
  <2>3. CASE (target = NoCf \/ evicted) /\ waiting = {}
    BY <1>1, <1>2, <2>3, ManagerFields DEF Manager
  <2> QED BY <2>1, <2>2, <2>3
<1>5. c.inactive = m.inactive \/ Range(c.inactive) \subseteq Range(m.inactive) \cup {target}
  BY <1>1, <1>4
<1> QED BY <1>1, <1>3, <1>4, <1>5 DEF c

LEMMA UpdateAddressTableType ==
  ASSUME NEW m \in Manager, NEW f \in Frames
  PROVE  UpdateAddressTable(m, f) \in Manager
<1>1. RequestInTable(m) \in Manager
  BY ManagerFields DEF RequestInTable, Manager
<1>2. f.kind = "claim" => ClaimInTable(m, f.src) \in Manager
  BY FrameFields, ClaimInTableType
<1> QED BY <1>1, <1>2 DEF UpdateAddressTable

LEMMA ProcessClaimingType ==
  ASSUME NEW m \in Manager, NEW n \in Stack, NEW f \in Frames
  PROVE  /\ ProcessClaiming(m, n, f) \in Manager
         /\ ProcessClaiming(m, n, f).table = m.table
         /\ ProcessClaiming(m, n, f).inactive = m.inactive
         /\ ProcessClaiming(m, n, f).partner = m.partner
         /\ ProcessClaiming(m, n, f).bound = m.bound
<1>1. PICK preferred \in Slot, state \in State :
        ProcessClaiming(m, n, f) = [m EXCEPT !.preferred = preferred, !.state = state]
  <2>1. m = [m EXCEPT !.preferred = m.preferred, !.state = m.state]
    BY DEF Manager
  <2>2. [m EXCEPT !.state = "SendReclaimAddressOnRequest"] =
          [m EXCEPT !.preferred = m.preferred, !.state = "SendReclaimAddressOnRequest"]
    BY DEF Manager
  <2>3. CommandedState(m, n, f.new) \in State
    BY ManagerFields DEF CommandedState, State
  <2>4. f.kind = "command" => f.new \in Slot
    BY FrameFields DEF Slot
  <2>5. m.preferred \in Slot /\ m.state \in State /\ "SendReclaimAddressOnRequest" \in State
    BY ManagerFields DEF State
  <2>6. \/ ProcessClaiming(m, n, f) = m
        \/ ProcessClaiming(m, n, f) = [m EXCEPT !.state = "SendReclaimAddressOnRequest"]
        \/ /\ f.kind = "command"
           /\ ProcessClaiming(m, n, f) =
                [m EXCEPT !.preferred = f.new, !.state = CommandedState(m, n, f.new)]
    BY DEF ProcessClaiming
  <2> QED BY <2>1, <2>2, <2>3, <2>4, <2>5, <2>6
<1> QED BY <1>1 DEF Manager

\* What is left of a sequence without one of its elements
LEMMA RemoveAtElements ==
  ASSUME NEW S, NEW s \in Seq(S), NEW i \in 1 .. Len(s)
  PROVE  /\ RemoveAt(s, i) \in Seq(S)
         /\ \A x \in Range(RemoveAt(s, i)) : \E j \in DOMAIN s \ {i} : x = s[j]
<1> DEFINE front == SubSeq(s, 1, i - 1)
           back == SubSeq(s, i + 1, Len(s))
<1>1. /\ front \in Seq(S) /\ Len(front) = i - 1
      /\ \A j \in 1 .. i - 1 : front[j] = s[j]
  BY SubSeqProperties
<1>2. /\ back \in Seq(S) /\ Len(back) = Len(s) - i
      /\ \A j \in 1 .. Len(s) - i : back[j] = s[i + j]
  BY SubSeqProperties
<1>3. RemoveAt(s, i) = front \o back
  BY DEF RemoveAt
<1> HIDE DEF front, back
<1> DEFINE rest == front \o back
<1>4. /\ rest \in Seq(S) /\ Len(rest) = Len(s) - 1
      /\ \A j \in 1 .. Len(rest) : rest[j] = IF j < i THEN front[j] ELSE back[j - (i - 1)]
  <2>1. /\ rest \in Seq(S) /\ Len(rest) = Len(front) + Len(back)
        /\ \A j \in 1 .. Len(front) + Len(back) :
             rest[j] = IF j <= Len(front) THEN front[j] ELSE back[j - Len(front)]
    BY <1>1, <1>2, ConcatProperties
  <2> HIDE DEF rest
  <2> QED BY <1>1, <1>2, <2>1
<1> HIDE DEF rest
<1>5. ASSUME NEW j \in DOMAIN rest
      PROVE  \E l \in DOMAIN s \ {i} : rest[j] = s[l]
  <2>1. j \in 1 .. Len(s) - 1
    BY <1>4
  <2>2. CASE j < i
    BY <1>1, <1>4, <2>1, <2>2
  <2>3. CASE j >= i
    <3>1. rest[j] = back[j - (i - 1)] /\ j - (i - 1) \in 1 .. Len(s) - i
      BY <1>4, <2>1, <2>3
    <3>2. back[j - (i - 1)] = s[j + 1]
      BY <1>2, <2>1, <3>1
    <3> QED BY <2>1, <2>3, <3>1, <3>2
  <2> QED BY <2>1, <2>2, <2>3
<1> QED BY <1>3, <1>4, <1>5 DEF Range, rest

LEMMA UpdateNewPartnerType ==
  ASSUME NEW m \in Manager, NEW n \in Stack
  PROVE  UpdateNewPartner(m, n) \in Manager
<1> DEFINE cf == m.table[Min(Matches(m, n))]
           listed == MatchesListed(m, n)
           inactive == IF listed = {} THEN m.inactive ELSE RemoveAt(m.inactive, Min(listed))
           known == [m EXCEPT !.partner = "known", !.inactive = inactive]
<1>1. inactive \in Seq(Cf)
  <2>1. m.inactive \in Seq(Cf)
    BY ManagerFields
  <2>2. listed \in SUBSET Nat
    BY <2>1 DEF MatchesListed
  <2>3. listed # {} => Min(listed) \in 1 .. Len(m.inactive)
    BY <2>1, <2>2, Least, SMTT(30) DEF MatchesListed
  <2> QED BY <2>1, <2>3, RemoveAtElements
<1>2. known \in Manager
  BY <1>1 DEF Manager
<1>3. Matches(m, n) # {} => cf \in Node \cap Cf
  <2>1. Matches(m, n) \in SUBSET Nat
    BY ClaimAssumption DEF Matches
  <2>2. Matches(m, n) # {} => Min(Matches(m, n)) \in Matches(m, n)
    BY <2>1, Least
  <2> QED BY <2>2, ClaimAssumption DEF Matches, Cf
<1>4. UpdateNewPartner(m, n) =
        CASE m.partner # "new" -> m
          [] m.partner = "new" /\ Matches(m, n) = {} -> known
          [] OTHER -> [known EXCEPT !.bound = cf, !.address[Partner] = m.address[cf],
                                    !.table[m.address[cf]] = Partner]
  BY DEF UpdateNewPartner
<1> HIDE DEF cf, listed, inactive, known
<1>5. ASSUME Matches(m, n) # {}
      PROVE  [known EXCEPT !.bound = cf, !.address[Partner] = m.address[cf],
                           !.table[m.address[cf]] = Partner] \in Manager
  <2>1. m.address[cf] \in Slot
    BY <1>3, <1>5, ManagerFields
  <2> QED BY <1>2, <1>3, <1>5, <2>1 DEF Manager, Cf
<1> QED BY <1>2, <1>4, <1>5

LEMMA MovedType ==
  ASSUME NEW m \in Manager, NEW n \in Stack, NEW a \in Slot
  PROVE  /\ Moved(m, n, a) \in Manager
         /\ \A b \in Slot : Moved(m, n, a).table[b] \in {m.table[b], NoCf, n}
         /\ Moved(m, n, a).inactive = m.inactive /\ Moved(m, n, a).partner = m.partner
         /\ Moved(m, n, a).bound = m.bound
<1> DEFINE slots == {b \in Address : m.table[b] = n}
           left == IF slots = {} THEN m.table ELSE [m.table EXCEPT ![Min(slots)] = NoCf]
           address == [m.address EXCEPT ![n] = a]
           moved == IF left[a] = NoCf THEN address ELSE [address EXCEPT ![left[a]] = Null]
<1>1. n \in Cf
  BY DEF Stack, Cf
<1>2. left \in [Slot -> Cf \cup {NoCf}] /\ \A b \in Slot : left[b] \in {m.table[b], NoCf}
  BY ManagerFields
<1>3. moved \in [Cf -> Slot]
  BY ManagerFields DEF Slot
<1>4. Moved(m, n, a) = [m EXCEPT !.address = moved, !.table = [left EXCEPT ![a] = n],
                                 !.state = "AddressClaimingComplete"]
  BY DEF Moved
<1> HIDE DEF left, moved
<1> DEFINE table == [left EXCEPT ![a] = n]
           next == [m EXCEPT !.address = moved, !.table = table,
                             !.state = "AddressClaimingComplete"]
<1>5. table \in [Slot -> Cf \cup {NoCf}] /\ \A b \in Slot : table[b] \in {m.table[b], NoCf, n}
  BY <1>1, <1>2
<1>6. Moved(m, n, a) = next
  BY <1>4
<1> HIDE DEF table
<1>7. next \in Manager
  BY <1>3, <1>5 DEF Manager, State
<1>8. /\ next.table = table /\ next.inactive = m.inactive /\ next.partner = m.partner
      /\ next.bound = m.bound
  BY DEF Manager
<1> HIDE DEF next
<1> QED BY <1>5, <1>6, <1>7, <1>8

LEMMA PrunedType ==
  ASSUME NEW m \in Manager, NEW n \in Stack
  PROVE  /\ Pruned(m, n) \in Manager
         /\ \A b \in Slot : Pruned(m, n).table[b] \in {m.table[b], NoCf}
         /\ Range(Pruned(m, n).inactive) \subseteq
              Range(m.inactive) \cup {m.table[b] : b \in Slot}
         /\ Pruned(m, n).partner = m.partner /\ Pruned(m, n).bound = m.bound
<1> DEFINE S == Silent(m, n)
           offline == [k \in 1 .. Cardinality(S) |-> m.table[Nth(k, S)]]
           table == [a \in Slot |-> IF a \in S THEN NoCf ELSE m.table[a]]
           address == WithoutAddress(m.address, {m.table[a] : a \in S})
<1>1. S \in SUBSET Nat /\ IsFiniteSet(S)
  BY ClaimAssumption, FS_Subset DEF Silent
<1>2. /\ Cardinality(S) \in Nat
      /\ \A k \in 1 .. Cardinality(S) : Nth(k, S) \in S
  BY <1>1, NthExists
<1>3. \A k \in 1 .. Cardinality(S) :
        m.table[Nth(k, S)] \in Cf /\ \E b \in Slot : m.table[Nth(k, S)] = m.table[b]
  BY <1>2, ManagerFields DEF Silent, Slot
<1>4. offline \in Seq(Cf) /\ \A k \in DOMAIN offline : \E b \in Slot : offline[k] = m.table[b]
  BY <1>2, <1>3
<1>5. table \in [Slot -> Cf \cup {NoCf}] /\ \A b \in Slot : table[b] \in {m.table[b], NoCf}
  BY ManagerFields
<1>6. address \in [Cf -> Slot]
  BY ManagerFields DEF WithoutAddress, Slot
<1>7. Pruned(m, n) = [m EXCEPT !.requested = FALSE, !.table = table, !.address = address,
                               !.inactive = m.inactive \o offline]
  BY DEF Pruned
<1> HIDE DEF S, offline, table, address
<1>8. /\ m.inactive \o offline \in Seq(Cf)
      /\ Range(m.inactive \o offline) \subseteq Range(m.inactive) \cup Range(offline)
  <2>1. m.inactive \in Seq(Cf)
    BY ManagerFields
  <2>2. m.inactive \o offline \in Seq(Cf)
    BY <1>4, <2>1
  <2>3. \A i \in DOMAIN (m.inactive \o offline) :
          \/ i \in DOMAIN m.inactive /\ (m.inactive \o offline)[i] = m.inactive[i]
          \/ \E j \in DOMAIN offline : (m.inactive \o offline)[i] = offline[j]
    <3>1. /\ Len(m.inactive \o offline) = Len(m.inactive) + Len(offline)
          /\ \A i \in 1 .. Len(m.inactive) + Len(offline) : (m.inactive \o offline)[i] =
               IF i <= Len(m.inactive) THEN m.inactive[i] ELSE offline[i - Len(m.inactive)]
      BY <1>4, <2>1, ConcatProperties
    <3> QED BY <1>4, <2>1, <2>2, <3>1
  <2> QED BY <2>2, <2>3 DEF Range
<1>9. Range(offline) \subseteq {m.table[b] : b \in Slot}
  BY <1>4 DEF Range
<1> QED BY <1>5, <1>6, <1>7, <1>8, <1>9 DEF Manager

-----------------------------------------------------------------------------
(* The partner *)

\* No external control function that matches the partner of n is known, neither
\* in the table, the element behind it included, nor in the inactive list
NoMatch(m, n) ==
  ({m.table[a] : a \in Slot} \cup Range(m.inactive)) \cap (Matching \ {n}) = {}

\* What is left without a NAME has nothing to take it from
PartnerInv(m, n, leftover) ==
  m.partner = "known" /\ m.bound = NoCf /\ ~leftover => NoMatch(m, n)

ManagersOK == \A n \in Stack : PartnerInv(mgr[n], n, missed[n])

LEMMA ClaimedPartner ==
  ASSUME NEW m \in Manager, NEW n \in Stack, NEW k \in Node, NEW a \in Slot, NEW leftover,
         PartnerInv(m, n, leftover)
  PROVE  PartnerInv(Claimed(m, n, k, a), n, leftover)
<1> DEFINE cf == IF BindsPartner(m, k) THEN Partner ELSE KnownCf(m, k)
           bound == IF BindsPartner(m, k) THEN [m EXCEPT !.bound = k, !.table[a] = Partner] ELSE m
           d == Dispossess(bound, n, cf, k, a)
           c == Claimed(m, n, k, a)
<1>1. cf \in Cf \cup {NoCf}
  BY KnownCfType DEF Cf
<1>2. bound \in Manager
  BY DEF Manager, Cf
<1>3. c = Settle(d, cf, k, a)
  BY DEF Claimed
<1>4. /\ d \in Manager /\ d.table = bound.table /\ d.inactive = bound.inactive
      /\ d.partner = bound.partner /\ d.bound = bound.bound
  <2> HIDE DEF cf, bound
  <2> QED BY <1>1, <1>2, DispossessType
<1>5. CASE BindsPartner(m, k)
  <2>1. d.bound = k
    BY <1>4, <1>5 DEF Manager
  <2>2. c.bound = k
    BY <1>3, <1>4, <2>1 DEF Settle, Manager
  <2> QED BY <2>2, ClaimAssumption DEF PartnerInv, Cf
<1>6. CASE ~BindsPartner(m, k)
  <2>1. bound = m /\ cf = KnownCf(m, k)
    BY <1>6
  <2> HIDE DEF bound, d, cf
  <2>2. c.inactive = m.inactive /\ c.partner = m.partner /\ c.bound = m.bound
    BY <1>3, <1>4, <2>1 DEF Settle, Manager
  <2> SUFFICES ASSUME m.partner = "known", m.bound = NoCf, ~leftover, NoMatch(m, n)
               PROVE  NoMatch(c, n)
    BY <2>2 DEF PartnerInv, c
  <2>3. cf = NoCf => k \notin Matching
    BY <1>6, <2>1 DEF BindsPartner
  <2>4. cf # NoCf => cf \in {m.table[b] : b \in Slot} \cup Range(m.inactive)
    BY <1>6, <2>1, KnownCfType DEF Slot
  <2>5. \A b \in Slot : \/ c.table[b] = m.table[b]
                        \/ cf = NoCf /\ c.table[b] = k
                        \/ cf # NoCf /\ c.table[b] \in {cf, NoCf}
    BY <1>3, <1>4, <2>1, ManagerFields DEF Settle
  <2> HIDE DEF c
  <2> QED BY <2>2, <2>3, <2>4, <2>5, Names DEF NoMatch, Cf
<1> QED BY <1>5, <1>6

LEMMA UpdateAddressTablePartner ==
  ASSUME NEW m \in Manager, NEW n \in Stack, NEW f \in Frames, NEW leftover,
         PartnerInv(m, n, leftover)
  PROVE  PartnerInv(UpdateAddressTable(m, f), n, leftover)
<1>1. CASE f.kind = "claim"
  <2> DEFINE c == ClaimInTable(m, f.src)
  <2>1. f.src \in Slot /\ UpdateAddressTable(m, f) = c
    BY <1>1, FrameFields DEF UpdateAddressTable
  <2>2. c.partner = m.partner /\ c.bound = m.bound
    BY <2>1 DEF ClaimInTable, Manager
  <2>3. /\ Range(c.inactive) \subseteq Range(m.inactive) \cup {m.table[b] : b \in Slot}
        /\ \A b \in Slot : \/ c.table[b] = m.table[b]
                           \/ c.table[b] \in Range(m.inactive) \cup {m.table[f.src]}
    BY <2>1, ClaimInTableType
  <2> HIDE DEF c
  <2> QED BY <2>1, <2>2, <2>3 DEF PartnerInv, NoMatch
<1>2. CASE f.kind # "claim"
  BY <1>2 DEF UpdateAddressTable, RequestInTable, PartnerInv, NoMatch, Manager
<1> QED BY <1>1, <1>2

LEMMA UpdateNewPartnerPartner ==
  ASSUME NEW m \in Manager, NEW n \in Stack, NEW leftover \in BOOLEAN,
         PartnerInv(m, n, leftover)
  PROVE  PartnerInv(UpdateNewPartner(m, n), n,
                    leftover \/ (m.partner = "new" /\ LeavesMatch(m, n)))
<1> DEFINE u == UpdateNewPartner(m, n)
           listed == MatchesListed(m, n)
           inactive == IF listed = {} THEN m.inactive ELSE RemoveAt(m.inactive, Min(listed))
<1>1. CASE m.partner # "new"
  BY <1>1 DEF UpdateNewPartner
<1>2. CASE m.partner = "new" /\ Matches(m, n) # {}
  <2> DEFINE cf == m.table[Min(Matches(m, n))]
  <2>1. Matches(m, n) \in SUBSET Nat
    BY ClaimAssumption DEF Matches
  <2>2. cf \in Node
    BY <1>2, <2>1, Least, ClaimAssumption DEF Matches
  <2>3. u.bound = cf
    BY <1>2 DEF UpdateNewPartner, Manager
  <2> HIDE DEF cf
  <2> QED BY <2>2, <2>3, ClaimAssumption DEF PartnerInv, Cf
<1>3. CASE m.partner = "new" /\ Matches(m, n) = {}
  <2> SUFFICES ASSUME ~LeavesMatch(m, n) PROVE NoMatch(u, n)
    BY <1>3 DEF PartnerInv
  <2>1. u.table = m.table /\ u.inactive = inactive
    BY <1>3 DEF UpdateNewPartner, Manager
  <2>2. \A a \in Slot : m.table[a] \notin Matching \ {n}
    BY <1>3 DEF Matches, LeavesMatch, Slot
  <2>3. m.inactive \in Seq(Cf)
    BY ManagerFields
  <2>4. \A x \in Range(inactive) : x \notin Matching \ {n}
    <3>1. CASE listed = {}
      BY <2>3, <3>1 DEF MatchesListed, Range
    <3>2. CASE listed # {}
      <4>1. listed \in SUBSET Nat
        BY <2>3 DEF MatchesListed
      <4>2. Min(listed) \in listed
        BY <3>2, <4>1, Least
      <4>3. Min(listed) \in 1 .. Len(m.inactive)
        BY <2>3, <4>2 DEF MatchesListed
      <4>4. \A x \in Range(inactive) : \E j \in DOMAIN m.inactive \ {Min(listed)} : x = m.inactive[j]
        BY <2>3, <3>2, <4>3, RemoveAtElements
      <4>5. \A j \in listed : j = Min(listed)
        BY <4>2 DEF LeavesMatch
      <4> HIDE DEF inactive
      <4> QED BY <4>4, <4>5 DEF MatchesListed
    <3> QED BY <3>1, <3>2
  <2> HIDE DEF inactive, u
  <2> QED BY <2>1, <2>2, <2>4 DEF NoMatch
<1> QED BY <1>1, <1>2, <1>3

LEMMA MovedPartner ==
  ASSUME NEW m \in Manager, NEW n \in Stack, NEW a \in Slot, NEW leftover,
         PartnerInv(m, n, leftover)
  PROVE  PartnerInv(Moved(m, n, a), n, leftover)
<1> DEFINE r == Moved(m, n, a)
<1>1. /\ \A b \in Slot : r.table[b] \in {m.table[b], NoCf, n}
      /\ r.inactive = m.inactive /\ r.partner = m.partner /\ r.bound = m.bound
  BY MovedType
<1> HIDE DEF r
<1>2. PartnerInv(r, n, leftover)
  BY <1>1, Names DEF PartnerInv, NoMatch, Cf
<1> QED BY <1>2 DEF r

LEMMA PrunedPartner ==
  ASSUME NEW m \in Manager, NEW n \in Stack, NEW leftover, PartnerInv(m, n, leftover)
  PROVE  PartnerInv(Pruned(m, n), n, leftover)
<1> DEFINE r == Pruned(m, n)
<1>1. /\ \A b \in Slot : r.table[b] \in {m.table[b], NoCf}
      /\ Range(r.inactive) \subseteq Range(m.inactive) \cup {m.table[b] : b \in Slot}
      /\ r.partner = m.partner /\ r.bound = m.bound
  BY PrunedType
<1> HIDE DEF r
<1>2. PartnerInv(r, n, leftover)
  BY <1>1, Names DEF PartnerInv, NoMatch, Cf
<1> QED BY <1>2 DEF r

-----------------------------------------------------------------------------
(* The steps *)

Inv == TypeOK /\ ManagersOK

\* The end of an update: the manager is the one update_internal_cfs() left, or
\* that one pruned
LEMMA EndUpdateInv ==
  ASSUME Inv, NEW n \in Stack, NEW m \in Manager, PartnerInv(m, n, missed[n]),
         NEW frames \in Seq(Frames), EndUpdate(n, m, frames), Accepted \/ Refused
  PROVE  Inv'
<1> USE DEF Inv, TypeOK, ManagersOK, Turn
<1>1. PICK r \in Manager : mgr' = [mgr EXCEPT ![n] = r] /\ PartnerInv(r, n, missed[n])
  BY PrunedType, PrunedPartner DEF EndUpdate
<1>2. inbox' \in [Stack -> Seq(Frames)]
  <2>1. \A k \in Stack : inbox[k] \in Seq(Frames) /\ inbox[k] \o frames \in Seq(Frames)
    OBVIOUS
  <2>2. inbox' = [k \in Stack |-> IF k = n THEN inbox[k] ELSE inbox[k] \o frames]
    BY DEF EndUpdate
  <2> QED BY <2>1, <2>2
<1>3. msgs' \in [Stack -> Seq(Frames)]
  <2>1. <<>> \in Seq(Frames)
    OBVIOUS
  <2> QED BY <2>1 DEF EndUpdate
<1>4. refused' \in 0 .. MaxRefused
  BY ClaimAssumption DEF Accepted, Refused
<1>5. UNCHANGED <<heard, missed, foreign>> /\ turn' \in [Stack -> {"frames", "messages"}]
  BY DEF EndUpdate
<1>6. ManagersOK'
  BY <1>1, <1>5
<1> QED BY <1>1, <1>2, <1>3, <1>4, <1>5, <1>6

LEMMA UpdateClaimingInv ==
  ASSUME Inv, NEW n \in Stack, UpdateClaiming(n)
  PROVE  Inv'
<1> DEFINE m == mgr[n]
<1>1. m \in Manager /\ PartnerInv(m, n, missed[n]) /\ n \in Node
  BY DEF Inv, TypeOK, ManagersOK, Stack
<1>2. <<>> \in Seq(Frames)
  OBVIOUS
<1>3. <<Request(Null, Global)>> \in Seq(Frames)
  BY <1>1, SentFrames DEF Slot
<1>4. ASSUME NEW a \in Slot
      PROVE  <<Claim(n, a)>> \in Seq(Frames)
  BY <1>1, SentFrames
<1>5. ASSUME NEW state \in State
      PROVE  InState(n, state) \in Manager /\ PartnerInv(InState(n, state), n, missed[n])
  <2> DEFINE r == InState(n, state)
  <2>1. r = [m EXCEPT !.state = state]
    BY DEF InState
  <2> HIDE DEF m, r
  <2>2. /\ r \in Manager /\ r.table = m.table /\ r.inactive = m.inactive
        /\ r.partner = m.partner /\ r.bound = m.bound
    BY <1>1, <2>1 DEF Manager
  <2>3. PartnerInv(r, n, missed[n])
    BY <1>1, <2>2 DEF PartnerInv, NoMatch
  <2> QED BY <2>2, <2>3 DEF r
<1>6. ASSUME NEW a \in Slot
      PROVE  Moved(m, n, a) \in Manager /\ PartnerInv(Moved(m, n, a), n, missed[n])
  BY <1>1, MovedType, MovedPartner
<1>7. CASE Rest(n)
  BY <1>1, <1>2, <1>7, EndUpdateInv DEF Rest
<1>8. CASE StartClaim(n) \/ EndClaimDelay(n)
  BY <1>2, <1>5, <1>8, EndUpdateInv DEF StartClaim, EndClaimDelay, State
<1>9. CASE SendRequestForClaim(n)
  BY <1>1, <1>2, <1>3, <1>5, <1>9, EndUpdateInv DEF SendRequestForClaim, State
<1>10. CASE EndContention(n)
  <2>1. Decision(m, n) \in State
    BY DEF Decision, State
  <2> QED BY <1>2, <1>5, <1>10, <2>1, EndUpdateInv DEF EndContention
<1>11. CASE ClaimPreferred(n)
  <2>1. m.preferred \in Slot /\ "None" \in State
    BY <1>1, ManagerFields DEF State
  <2> QED BY <1>2, <1>4, <1>5, <1>6, <1>11, <2>1, EndUpdateInv DEF ClaimPreferred
<1>12. CASE ClaimArbitrary(n)
  <2> DEFINE free == {a \in Dynamic : m.table[a] = NoCf}
             a == Min(free)
             claimed == [Moved(m, n, a) EXCEPT !.preferred = IF @ = Null THEN a ELSE @]
  <2>1. free \in SUBSET Nat /\ free \subseteq Slot
    BY ClaimAssumption DEF Slot
  <2>2. free # {} => a \in Slot
    BY <2>1, Least
  <2>3. free # {} => claimed \in Manager /\ PartnerInv(claimed, n, missed[n])
    <3> HIDE DEF a, free
    <3> QED BY <1>6, <2>2 DEF Manager, PartnerInv, NoMatch
  <2>4. "UnableToClaim" \in State
    BY DEF State
  <2>5. \/ free # {} /\ EndUpdate(n, claimed, <<Claim(n, a)>>) /\ Accepted
        \/ EndUpdate(n, InState(n, "UnableToClaim"), <<>>) /\ (Accepted \/ Refused)
    BY <1>12 DEF ClaimArbitrary
  <2> HIDE DEF free, a, claimed
  <2> QED BY <1>2, <1>4, <1>5, <2>2, <2>3, <2>4, <2>5, EndUpdateInv
<1>13. CASE ReclaimAddress(n)
  <2>1. m.address[n] \in Slot
    BY <1>1, ManagerFields DEF Cf
  <2> QED BY <1>1, <1>2, <1>4, <1>6, <1>13, <2>1, EndUpdateInv DEF ReclaimAddress
<1> QED BY <1>7, <1>8, <1>9, <1>10, <1>11, <1>12, <1>13 DEF UpdateClaiming

LEMMA InitInv ==
  ASSUME Init
  PROVE  Inv
<1>1. <<>> \in Seq(Cf) /\ <<>> \in Seq(Frames)
  OBVIOUS
<1>2. \A n \in Stack : mgr[n] \in Manager /\ PartnerInv(mgr[n], n, missed[n])
  BY <1>1, ClaimAssumption DEF Init, Manager, State, Slot, PartnerInv
<1>3. ManagersOK
  BY <1>2 DEF ManagersOK
<1>4. mgr \in [Stack -> Manager]
  BY <1>2 DEF Init
<1>5. 0 \in 0 .. MaxForeign /\ 0 \in 0 .. MaxRefused
  BY ClaimAssumption
<1>6. TypeOK
  BY <1>1, <1>4, <1>5 DEF Init, TypeOK, Turn
<1> QED BY <1>3, <1>6 DEF Inv

LEMMA StepInv ==
  ASSUME Inv, [Next]_vars
  PROVE  Inv'
<1> USE DEF Inv, TypeOK, ManagersOK, Turn
<1>1. ASSUME NEW n \in Stack, ReceiveFrame(n)
      PROVE  Inv'
  <2> DEFINE f == Head(inbox[n])
  <2>1. f \in Frames /\ Tail(inbox[n]) \in Seq(Frames) /\ Append(msgs[n], f) \in Seq(Frames)
    BY <1>1 DEF ReceiveFrame
  <2>2. /\ UpdateControlFunctions(mgr[n], n, f) \in Manager
        /\ PartnerInv(UpdateControlFunctions(mgr[n], n, f), n, missed[n])
    BY <2>1, FrameFields, ClaimedType, ClaimedPartner DEF UpdateControlFunctions
  <2> HIDE DEF f
  <2>3. /\ mgr' = [mgr EXCEPT ![n] = UpdateControlFunctions(@, n, f)]
        /\ inbox' = [inbox EXCEPT ![n] = Tail(@)]
        /\ msgs' = [msgs EXCEPT ![n] = Append(@, f)]
        /\ UNCHANGED <<turn, heard, missed, foreign, refused>>
    BY <1>1 DEF ReceiveFrame, f
  <2> QED BY <2>1, <2>2, <2>3
<1>2. ASSUME NEW n \in Stack, CreatePartner(n)
      PROVE  Inv'
  <2> DEFINE r == [mgr[n] EXCEPT !.partner = "new"]
  <2>1. mgr[n] \in Manager
    OBVIOUS
  <2>2. r \in Manager /\ r.partner = "new"
    BY <2>1 DEF Manager
  <2>3. /\ mgr' = [mgr EXCEPT ![n] = r]
        /\ UNCHANGED <<turn, inbox, msgs, heard, missed, foreign, refused>>
    BY <1>2 DEF CreatePartner
  <2> HIDE DEF r
  <2>4. PartnerInv(r, n, missed[n])
    BY <2>2 DEF PartnerInv
  <2> QED BY <2>2, <2>3, <2>4
<1>3. ASSUME NEW n \in Stack, BeginUpdate(n)
      PROVE  Inv'
  <2> DEFINE left == missed[n] \/ (mgr[n].partner = "new" /\ LeavesMatch(mgr[n], n))
  <2>1. /\ UpdateNewPartner(mgr[n], n) \in Manager
        /\ PartnerInv(UpdateNewPartner(mgr[n], n), n, left)
    BY UpdateNewPartnerType, UpdateNewPartnerPartner
  <2>2. left \in BOOLEAN
    OBVIOUS
  <2>3. /\ mgr' = [mgr EXCEPT ![n] = UpdateNewPartner(@, n)]
        /\ missed' = [missed EXCEPT ![n] = left]
        /\ turn' = [turn EXCEPT ![n] = "messages"]
        /\ UNCHANGED <<inbox, msgs, heard, foreign, refused>>
    BY <1>3 DEF BeginUpdate
  <2> HIDE DEF left
  <2> QED BY <2>1, <2>2, <2>3
<1>4. ASSUME NEW n \in Stack, ProcessMessage(n)
      PROVE  Inv'
  <2> DEFINE f == Head(msgs[n])
             u == UpdateAddressTable(mgr[n], f)
             p == ProcessClaiming(u, n, f)
  <2>1. f \in Frames /\ Tail(msgs[n]) \in Seq(Frames)
    BY <1>4 DEF ProcessMessage
  <2>2. u \in Manager /\ PartnerInv(u, n, missed[n])
    BY <2>1, UpdateAddressTableType, UpdateAddressTablePartner
  <2>3. heard[n] \in SUBSET Node /\ HeardAfter(heard[n], f) \in SUBSET Node
    BY <2>1, FrameFields DEF HeardAfter
  <2> HIDE DEF f, u
  <2>4. p \in Manager /\ PartnerInv(p, n, missed[n])
    <3>1. /\ p \in Manager /\ p.table = u.table /\ p.inactive = u.inactive
          /\ p.partner = u.partner /\ p.bound = u.bound
      BY <2>1, <2>2, ProcessClaimingType
    <3> HIDE DEF p
    <3> QED BY <2>2, <3>1 DEF PartnerInv, NoMatch
  <2>5. /\ mgr' = [mgr EXCEPT ![n] = p] /\ msgs' = [msgs EXCEPT ![n] = Tail(@)]
        /\ heard' = [heard EXCEPT ![n] = HeardAfter(@, f)]
        /\ UNCHANGED <<turn, inbox, missed, foreign, refused>>
    BY <1>4 DEF ProcessMessage, f, u
  <2> HIDE DEF p
  <2> QED BY <2>1, <2>3, <2>4, <2>5
<1>5. ASSUME NEW n \in Stack, UpdateClaiming(n)
      PROVE  Inv'
  BY <1>5, UpdateClaimingInv
<1>6. ASSUME NEW f \in ForeignFrame, ForeignSends(f)
      PROVE  Inv'
  <2>1. f \in Frames /\ MaxForeign \in Nat
    BY ClaimAssumption
  <2>2. \A n \in Stack : Append(inbox[n], f) \in Seq(Frames)
    BY <2>1
  <2>3. /\ foreign < MaxForeign /\ foreign' = foreign + 1
        /\ inbox' = [n \in Stack |-> Append(inbox[n], f)]
        /\ UNCHANGED <<mgr, turn, msgs, heard, missed, refused>>
    BY <1>6 DEF ForeignSends
  <2> QED BY <2>1, <2>2, <2>3
<1>7. CASE UNCHANGED vars
  BY <1>7 DEF vars
<1> QED BY <1>1, <1>2, <1>3, <1>4, <1>5, <1>6, <1>7 DEF Next

LEMMA InvHolds == Spec => []Inv
<1>1. Init => Inv
  BY InitInv
<1>2. Inv /\ [Next]_vars => Inv'
  BY StepInv
<1> QED BY <1>1, <1>2, PTL DEF Spec

\* Type correctness: every manager's table, inactive list and control functions,
\* and the frames on the bus, hold nothing but what the types of AddressClaim
\* allow, whatever nodes of other makes send: any address byte, 254 and 255
\* included, as a frame's source, in a claim or commanded.  They claim under
\* their own NAMEs only
THEOREM TypeCorrect == Spec => []TypeOK
BY InvHolds, PTL DEF Inv

\* A partner update_new_partners() has looked at and that has no NAME yet is not
\* passed over: no external control function its filters match is in the table or
\* the inactive list, unless several of the inactive ones matched when it was
\* looked at
THEOREM PartnersBound == Spec => []PartnerBound
<1>1. Inv => PartnerBound
  BY DEF Inv, ManagersOK, PartnerInv, NoMatch, PartnerBound, InTable, Slot
<1> QED BY <1>1, InvHolds, PTL

-----------------------------------------------------------------------------
(* One address, two nodes: the elements of a queue *)

LEMMA HeadTail ==
  ASSUME NEW S, NEW s \in Seq(S), s # <<>>
  PROVE  Head(s) \in S /\ Tail(s) \in Seq(S) /\ Range(s) = {Head(s)} \cup Range(Tail(s))
<1>1. /\ Head(s) = s[1] /\ Head(s) \in S /\ Tail(s) \in Seq(S) /\ Len(Tail(s)) = Len(s) - 1
      /\ Len(s) \in Nat \ {0}
      /\ \A i \in 1 .. Len(s) - 1 : Tail(s)[i] = s[i + 1]
  OBVIOUS
<1>2. DOMAIN s = 1 .. Len(s) /\ DOMAIN Tail(s) = 1 .. Len(s) - 1
  BY <1>1
<1>3. Range(s) \subseteq {Head(s)} \cup Range(Tail(s))
  <2> SUFFICES ASSUME NEW i \in 1 .. Len(s), i # 1 PROVE s[i] \in Range(Tail(s))
    BY <1>1, <1>2 DEF Range
  <2>1. i - 1 \in 1 .. Len(s) - 1 /\ Tail(s)[i - 1] = s[i]
    BY <1>1
  <2> QED BY <1>2, <2>1 DEF Range
<1>4. {Head(s)} \cup Range(Tail(s)) \subseteq Range(s)
  <2>1. 1 \in DOMAIN s
    BY <1>1, <1>2
  <2>2. \A i \in 1 .. Len(s) - 1 : i + 1 \in DOMAIN s
    BY <1>1, <1>2
  <2> QED BY <1>1, <1>2, <2>1, <2>2 DEF Range
<1> QED BY <1>1, <1>3, <1>4

LEMMA AppendElements ==
  ASSUME NEW S, NEW s \in Seq(S), NEW x \in S
  PROVE  Append(s, x) \in Seq(S) /\ Range(Append(s, x)) = Range(s) \cup {x}
<1>1. /\ Append(s, x) \in Seq(S) /\ DOMAIN Append(s, x) = 1 .. Len(s) + 1
      /\ DOMAIN s = 1 .. Len(s) /\ Len(s) \in Nat
      /\ Append(s, x)[Len(s) + 1] = x
      /\ \A i \in 1 .. Len(s) : Append(s, x)[i] = s[i]
  OBVIOUS
<1>2. 1 .. Len(s) + 1 = (1 .. Len(s)) \cup {Len(s) + 1}
  BY <1>1
<1> QED BY <1>1, <1>2 DEF Range

LEMMA ConcatElements ==
  ASSUME NEW S, NEW s \in Seq(S), NEW t \in Seq(S)
  PROVE  s \o t \in Seq(S) /\ Range(s \o t) = Range(s) \cup Range(t)
<1>1. /\ s \o t \in Seq(S) /\ Len(s \o t) = Len(s) + Len(t)
      /\ \A i \in 1 .. Len(s) + Len(t) :
           (s \o t)[i] = IF i <= Len(s) THEN s[i] ELSE t[i - Len(s)]
  BY ConcatProperties
<1>2. /\ Len(s) \in Nat /\ Len(t) \in Nat /\ DOMAIN s = 1 .. Len(s) /\ DOMAIN t = 1 .. Len(t)
      /\ DOMAIN (s \o t) = 1 .. Len(s) + Len(t)
  BY <1>1
<1>3. Range(s \o t) \subseteq Range(s) \cup Range(t)
  <2> SUFFICES ASSUME NEW i \in 1 .. Len(s) + Len(t)
               PROVE  (s \o t)[i] \in Range(s) \cup Range(t)
    BY <1>2 DEF Range
  <2>1. CASE i <= Len(s)
    BY <1>1, <1>2, <2>1 DEF Range
  <2>2. CASE ~(i <= Len(s))
    <3>1. (s \o t)[i] = t[i - Len(s)] /\ i - Len(s) \in DOMAIN t
      BY <1>1, <1>2, <2>2
    <3> QED BY <3>1 DEF Range
  <2> QED BY <2>1, <2>2
<1>4. ASSUME NEW i \in DOMAIN s
      PROVE  s[i] \in Range(s \o t)
  <2>1. i \in DOMAIN (s \o t) /\ (s \o t)[i] = s[i]
    BY <1>1, <1>2
  <2> QED BY <2>1 DEF Range
<1>5. ASSUME NEW i \in DOMAIN t
      PROVE  t[i] \in Range(s \o t)
  <2>1. i + Len(s) \in DOMAIN (s \o t) /\ (s \o t)[i + Len(s)] = t[i]
    BY <1>1, <1>2
  <2> QED BY <2>1 DEF Range
<1> QED BY <1>1, <1>3, <1>4, <1>5 DEF Range

-----------------------------------------------------------------------------
(* One address, two nodes: what a handler does to the address of its node *)

\* With m in its memory, n has completed its claim of an address
Owns(m, n) == m.state = "AddressClaimingComplete" /\ m.address[n] \in Address
\* Nothing but a claim of its own gives n an address: r comes after m, no claim between
Subdued(m, r, n) == Owns(r, n) => Owns(m, n) /\ r.address[n] = m.address[n]

\* A claim of another NAME takes the address of n or leaves it
LEMMA ClaimedSubdued ==
  ASSUME NEW m \in Manager, NEW n \in Stack, NEW k \in Node, NEW a \in Slot, n # k
  PROVE  Subdued(m, Claimed(m, n, k, a), n)
<1> DEFINE cf == IF BindsPartner(m, k) THEN Partner ELSE KnownCf(m, k)
           bound == IF BindsPartner(m, k) THEN [m EXCEPT !.bound = k, !.table[a] = Partner] ELSE m
           d == Dispossess(bound, n, cf, k, a)
           c == Claimed(m, n, k, a)
<1>1. n \in Cf /\ n # Partner /\ n # NoCf
  BY ClaimAssumption DEF Stack, Cf
<1>2. cf \in Cf \cup {NoCf} /\ cf # n
  <2>1. KnownCf(m, k) \in Cf \cup {NoCf}
    BY KnownCfType
  <2>2. KnownCf(m, k) # n
    <3> DEFINE slots == {b \in Address : m.table[b] # NoCf /\ NameOf(m, m.table[b]) = k}
               listed == {i \in DOMAIN m.inactive : NameOf(m, m.inactive[i]) = k}
    <3>1. slots # {} => Min(slots) \in slots
      <4>1. slots \in SUBSET Nat
        BY ClaimAssumption
      <4> QED BY <4>1, Least
    <3>2. listed # {} => Min(listed) \in listed
      <4>1. m.inactive \in Seq(Cf)
        BY ManagerFields
      <4>2. listed \in SUBSET Nat
        BY <4>1
      <4> QED BY <4>2, Least
    <3>3. KnownCf(m, k) = CASE slots # {} -> m.table[Min(slots)]
                            [] slots = {} /\ listed # {} -> m.inactive[Min(listed)]
                            [] OTHER -> NoCf
      BY DEF KnownCf
    <3>4. KnownCf(m, k) = NoCf \/ NameOf(m, KnownCf(m, k)) = k
      <4> HIDE DEF KnownCf
      <4> QED BY <3>1, <3>2, <3>3
    <3> QED BY <1>1, <3>4 DEF NameOf
  <2> QED BY <1>1, <2>1, <2>2 DEF Cf
<1>3. bound \in Manager /\ bound.state = m.state /\ bound.address = m.address
  BY DEF Manager, Cf
<1>4. c = Settle(d, cf, k, a)
  BY DEF Claimed
<1> HIDE DEF cf, bound, c
<1>5. /\ d \in Manager
      /\ \/ d.state = m.state
         \/ d.state # "AddressClaimingComplete"
      /\ d.address[n] \in {m.address[n], Null}
  <2>1. d \in Manager
    BY <1>2, <1>3, DispossessType
  <2>2. PICK lost, state :
          /\ d = [bound EXCEPT !.address = WithoutAddress(@, lost), !.state = state]
          /\ state \in {bound.state, "SendReclaimAddressOnRequest",
                        "WaitForRequestContentionPeriod"}
    BY DEF Dispossess
  <2> HIDE DEF d
  <2>3. d.state = state /\ d.address = WithoutAddress(m.address, lost)
    BY <1>3, <2>2 DEF Manager
  <2>4. d.address[n] \in {m.address[n], Null}
    BY <1>1, <2>3 DEF WithoutAddress
  <2> QED BY <1>3, <2>1, <2>2, <2>3, <2>4
<1> HIDE DEF d
<1>6. c.state = d.state /\ c.address[n] = d.address[n]
  BY <1>1, <1>2, <1>4, <1>5, ManagerFields DEF Settle, Manager
<1> QED BY <1>5, <1>6, ClaimAssumption DEF Subdued, Owns, c

\* The handling of a message takes the address of n or leaves it; if another node
\* claims it, n has to claim again
LEMMA MessageSubdued ==
  ASSUME NEW m \in Manager, NEW n \in Stack, NEW f \in Frames,
         NEW p, p = ProcessClaiming(UpdateAddressTable(m, f), n, f)
  PROVE  /\ Subdued(m, p, n)
         /\ f.kind = "claim" /\ f.src \in Address => ~(Owns(p, n) /\ p.address[n] = f.src)
<1> DEFINE u == UpdateAddressTable(m, f)
<1>1. u \in Manager
  BY UpdateAddressTableType
<1>2. u.state = m.state /\ u.address = m.address
  BY DEF UpdateAddressTable, ClaimInTable, RequestInTable, Manager
<1> HIDE DEF u
<1>3. p = ProcessClaiming(u, n, f)
  BY DEF u
<1>4. p.address = u.address
  BY <1>1, <1>3 DEF ProcessClaiming, Manager
<1>5. p.state = "AddressClaimingComplete" => u.state = "AddressClaimingComplete"
  BY <1>1, <1>3 DEF ProcessClaiming
<1>6. ASSUME f.kind = "claim", f.src \in Address, f.src = u.address[n]
      PROVE  p.state # "AddressClaimingComplete"
  <2>1. Violated(u, n, f)
    BY <1>6 DEF Violated
  <2>2. \/ u.state # "AddressClaimingComplete" /\ p = u
        \/ p = [u EXCEPT !.state = "SendReclaimAddressOnRequest"]
    BY <1>3, <1>6, <2>1 DEF ProcessClaiming
  <2> QED BY <1>1, <2>2 DEF Manager
<1> QED BY <1>2, <1>4, <1>5, <1>6 DEF Subdued, Owns

LEMMA NewPartnerSubdued ==
  ASSUME NEW m \in Manager, NEW n \in Stack
  PROVE  Subdued(m, UpdateNewPartner(m, n), n)
<1>1. n \in Cf /\ n # Partner
  BY ClaimAssumption DEF Stack, Cf
<1>2. /\ UpdateNewPartner(m, n).state = m.state
      /\ UpdateNewPartner(m, n).address[n] = m.address[n]
  BY <1>1, ManagerFields DEF UpdateNewPartner, Manager
<1> QED BY <1>2 DEF Subdued, Owns

\* The pruning does not touch the internal control function
LEMMA PrunedSubdued ==
  ASSUME NEW m \in Manager, NEW n \in Stack
  PROVE  Pruned(m, n).state = m.state /\ Pruned(m, n).address[n] = m.address[n]
<1>1. n \in Cf
  BY DEF Stack, Cf
<1> DEFINE gone == {m.table[a] : a \in Silent(m, n)}
<1>2. n \notin gone
  BY DEF Silent
<1>3. Pruned(m, n).state = m.state /\ Pruned(m, n).address = WithoutAddress(m.address, gone)
  BY DEF Pruned, Manager
<1> HIDE DEF gone
<1> QED BY <1>1, <1>2, <1>3 DEF WithoutAddress

-----------------------------------------------------------------------------
(* One address, two nodes: the claims on their way *)

\* The network manager of n has yet to handle the frame f
UnderWay(f, n) == f \in Range(inbox[n]) \/ f \in Range(msgs[n])

\* The inductive invariant.  Of two nodes that have completed their claim of one
\* address one has yet to handle the claim of the other, and will then leave it:
\* a node gets an address only by a step that sends the claim of it, and nothing
\* takes a claim out of a queue but its handling.  No node handles its own claim
OnesOwn == \A n \in Stack, f \in Frames : UnderWay(f, n) /\ f.kind = "claim" => f.name # n
CrossedClaims ==
  \A n, k \in Stack : n # k /\ Holds(n) /\ Holds(k) /\ Held(n) = Held(k) =>
    UnderWay(Claim(k, Held(n)), n) \/ UnderWay(Claim(n, Held(n)), k)

\* A step of p that gives it no address keeps that, when no claim is lost and p
\* leaves the address whose claim it has handled
LEMMA CrossedKept ==
  ASSUME TypeOK, CrossedClaims, NEW p \in Stack, NEW r, mgr' = [mgr EXCEPT ![p] = r],
         Subdued(mgr[p], r, p),
         \A q \in Stack, k \in Node, a \in Address : UnderWay(Claim(k, a), q) =>
           UnderWay(Claim(k, a), q)' \/ (q = p /\ ~(Owns(r, p) /\ r.address[p] = a))
  PROVE  CrossedClaims'
<1> SUFFICES ASSUME NEW n \in Stack, NEW k \in Stack, n # k, Holds(n)', Holds(k)',
                    Held(n)' = Held(k)'
             PROVE  UnderWay(Claim(k, Held(n)), n)' \/ UnderWay(Claim(n, Held(n)), k)'
  BY DEF CrossedClaims
<1>0. PICK a : a = mgr[n].address[n]
  OBVIOUS
<1>1. /\ mgr'[p] = r /\ \A q \in Stack : q # p => mgr'[q] = mgr[q]
      /\ Owns(mgr'[n], n) /\ Owns(mgr'[k], k) /\ mgr'[n].address[n] = mgr'[k].address[k]
  BY DEF TypeOK, Holds, Held, Owns
<1>2. Subdued(mgr[n], mgr'[n], n) /\ Subdued(mgr[k], mgr'[k], k)
  BY <1>1 DEF Subdued
<1>3. /\ Owns(mgr[n], n) /\ Owns(mgr[k], k) /\ mgr[k].address[k] = a
      /\ mgr'[n].address[n] = a /\ mgr'[k].address[k] = a
  BY <1>0, <1>1, <1>2 DEF Subdued
<1>4. a \in Address
  BY <1>0, <1>3 DEF Owns
<1>5. UnderWay(Claim(k, a), n) \/ UnderWay(Claim(n, a), k)
  BY <1>0, <1>3 DEF CrossedClaims, Holds, Held, Owns
<1>6. n \in Node /\ k \in Node
  BY DEF Stack
<1>7. UnderWay(Claim(k, a), n) => UnderWay(Claim(k, a), n)'
  <2>1. n = p => Owns(r, p) /\ r.address[p] = a
    BY <1>1, <1>3
  <2> QED BY <1>4, <1>6, <2>1
<1>8. UnderWay(Claim(n, a), k) => UnderWay(Claim(n, a), k)'
  <2>1. k = p => Owns(r, p) /\ r.address[p] = a
    BY <1>1, <1>3
  <2> QED BY <1>4, <1>6, <2>1
<1>9. Held(n)' = a
  BY <1>3 DEF Held
<1> QED BY <1>5, <1>7, <1>8, <1>9

\* A step of p that sends the claim of its address to everybody keeps it as well
LEMMA CrossedSent ==
  ASSUME TypeOK, CrossedClaims, NEW p \in Stack, NEW r, mgr' = [mgr EXCEPT ![p] = r],
         Owns(r, p) => \A q \in Stack \ {p} : UnderWay(Claim(p, r.address[p]), q)',
         \A q \in Stack, k \in Node, a \in Address :
           UnderWay(Claim(k, a), q) => UnderWay(Claim(k, a), q)'
  PROVE  CrossedClaims'
<1> SUFFICES ASSUME NEW n \in Stack, NEW k \in Stack, n # k, Holds(n)', Holds(k)',
                    Held(n)' = Held(k)'
             PROVE  UnderWay(Claim(k, Held(n)), n)' \/ UnderWay(Claim(n, Held(n)), k)'
  BY DEF CrossedClaims
<1>1. mgr'[p] = r /\ \A q \in Stack : q # p => mgr'[q] = mgr[q]
  BY DEF TypeOK
<1>2. CASE n = p
  <2>1. Held(n)' = r.address[p] /\ Owns(r, p)
    BY <1>1, <1>2 DEF Held, Holds, Owns
  <2> QED BY <1>2, <2>1
<1>3. CASE k = p
  <2>1. Held(n)' = r.address[p] /\ Owns(r, p)
    BY <1>1, <1>3 DEF Held, Holds, Owns
  <2> QED BY <1>3, <2>1
<1>4. CASE n # p /\ k # p
  <2>1. /\ Holds(n) /\ Holds(k) /\ Held(n) = Held(k)
        /\ Held(n)' = Held(n)
    BY <1>1, <1>4 DEF Holds, Held
  <2>2. Held(n) \in Address
    <3>1. mgr[n] \in Manager /\ n \in Cf
      BY DEF TypeOK, Stack, Cf
    <3>2. Held(n) \in Slot
      BY <3>1, ManagerFields DEF Held
    <3> QED BY <2>1, <3>2 DEF Holds, Slot
  <2>3. UnderWay(Claim(k, Held(n)), n) \/ UnderWay(Claim(n, Held(n)), k)
    BY <2>1 DEF CrossedClaims
  <2>4. n \in Node /\ k \in Node
    BY DEF Stack
  <2> HIDE DEF Held
  <2> QED BY <2>1, <2>2, <2>3, <2>4
<1> QED BY <1>2, <1>3, <1>4

\* What the end of an update does to the frames under way: those of others stay,
\* those of the node reach everybody else, and its own request comes back to it
LEMMA EndUpdateFrames ==
  ASSUME TypeOK, NEW p \in Stack, NEW m, NEW frames \in Seq(Frames), EndUpdate(p, m, frames)
  PROVE  /\ \A q \in Stack : \A f : UnderWay(f, q) => UnderWay(f, q)'
         /\ \A q \in Stack \ {p} : \A f : f \in Range(frames) => UnderWay(f, q)'
         /\ \A q \in Stack : \A f : UnderWay(f, q)' =>
              \/ UnderWay(f, q)
              \/ f \in Range(frames) /\ q # p
              \/ f \in Range(frames) /\ \E g \in Range(frames) : g.kind = "request"
<1>1. /\ msgs[p] = <<>>
      /\ inbox' = [k \in Stack |-> IF k = p THEN inbox[k] ELSE inbox[k] \o frames]
      /\ msgs' = [msgs EXCEPT ![p] =
           IF \E f \in Range(frames) : f.kind = "request" THEN frames ELSE <<>>]
  BY DEF EndUpdate
<1>2. Range(msgs[p]) = {} /\ Range(<<>>) = {}
  BY <1>1 DEF Range
<1>3. ASSUME NEW q \in Stack, q # p
      PROVE  Range(inbox'[q]) = Range(inbox[q]) \cup Range(frames) /\ msgs'[q] = msgs[q]
  <2>1. inbox[q] \in Seq(Frames) /\ inbox'[q] = inbox[q] \o frames /\ msgs'[q] = msgs[q]
    BY <1>1, <1>3 DEF TypeOK
  <2> QED BY <2>1, ConcatElements
<1>4. /\ inbox'[p] = inbox[p]
      /\ \/ msgs'[p] = <<>>
         \/ msgs'[p] = frames /\ \E g \in Range(frames) : g.kind = "request"
  BY <1>1 DEF TypeOK
<1>5. ASSUME NEW q \in Stack, NEW f, UnderWay(f, q)
      PROVE  UnderWay(f, q)'
  BY <1>2, <1>3, <1>4, <1>5 DEF UnderWay
<1>6. ASSUME NEW q \in Stack \ {p}, NEW f, f \in Range(frames)
      PROVE  UnderWay(f, q)'
  BY <1>3, <1>6 DEF UnderWay
<1>7. ASSUME NEW q \in Stack, NEW f, UnderWay(f, q)'
      PROVE  \/ UnderWay(f, q)
             \/ f \in Range(frames) /\ q # p
             \/ f \in Range(frames) /\ \E g \in Range(frames) : g.kind = "request"
  BY <1>2, <1>3, <1>4, <1>7 DEF UnderWay
<1> QED BY <1>5, <1>6, <1>7

Crossed == OnesOwn /\ CrossedClaims

\* The end of an update that gives the node no address
LEMMA EndUpdateCrossed ==
  ASSUME Inv, Crossed, NEW p \in Stack, NEW m \in Manager, Subdued(mgr[p], m, p),
         NEW frames \in Seq(Frames), EndUpdate(p, m, frames),
         \A f \in Range(frames) : f.kind = "request"
  PROVE  Crossed'
<1>1. PICK r : mgr' = [mgr EXCEPT ![p] = r] /\ Subdued(mgr[p], r, p)
  <2>1. PICK r : mgr' = [mgr EXCEPT ![p] = r] /\ (r = m \/ r = Pruned(m, p))
    BY DEF EndUpdate
  <2>2. Subdued(mgr[p], r, p)
    BY <2>1, PrunedSubdued DEF Subdued, Owns
  <2> QED BY <2>1, <2>2
<1>2. /\ \A q \in Stack : \A f : UnderWay(f, q) => UnderWay(f, q)'
      /\ \A q \in Stack : \A f : UnderWay(f, q)' => UnderWay(f, q) \/ f \in Range(frames)
  BY EndUpdateFrames DEF Inv
<1>3. CrossedClaims'
  BY <1>1, <1>2, CrossedKept DEF Inv, Crossed
<1>4. OnesOwn'
  BY <1>2 DEF OnesOwn, Crossed
<1> QED BY <1>3, <1>4 DEF Crossed

\* The end of an update that moves the node to an address and sends the claim of it
LEMMA EndUpdateClaims ==
  ASSUME Inv, Crossed, NEW p \in Stack, NEW m \in Manager,
         NEW a \in Slot, m.address[p] \in {a, Null}, EndUpdate(p, m, <<Claim(p, a)>>)
  PROVE  Crossed'
<1>1. PICK r : mgr' = [mgr EXCEPT ![p] = r] /\ r.address[p] \in {a, Null}
  <2>1. PICK r : mgr' = [mgr EXCEPT ![p] = r] /\ (r = m \/ r = Pruned(m, p))
    BY DEF EndUpdate
  <2> QED BY <2>1, PrunedSubdued
<1> DEFINE frames == <<Claim(p, a)>>
<1>2. /\ frames \in Seq(Frames) /\ Range(frames) = {Claim(p, a)}
  <2>1. Claim(p, a) \in Frames
    BY SentFrames DEF Stack
  <2> QED BY <2>1 DEF Range
<1>3. Claim(p, a).kind = "claim" /\ Claim(p, a).name = p
  BY DEF Claim
<1>4. /\ \A q \in Stack : \A f : UnderWay(f, q) => UnderWay(f, q)'
      /\ \A q \in Stack \ {p} : UnderWay(Claim(p, a), q)'
      /\ \A q \in Stack : \A f : UnderWay(f, q)' =>
           UnderWay(f, q) \/ (f = Claim(p, a) /\ q # p)
  <2>1. EndUpdate(p, m, frames) /\ TypeOK
    BY DEF Inv
  <2> HIDE DEF frames
  <2>2. /\ \A q \in Stack : \A f : UnderWay(f, q) => UnderWay(f, q)'
        /\ \A q \in Stack \ {p} : \A f : f \in Range(frames) => UnderWay(f, q)'
        /\ \A q \in Stack : \A f : UnderWay(f, q)' =>
              \/ UnderWay(f, q)
              \/ f \in Range(frames) /\ q # p
              \/ f \in Range(frames) /\ \E g \in Range(frames) : g.kind = "request"
    BY <1>2, <2>1, EndUpdateFrames
  <2> QED BY <1>2, <1>3, <2>2
<1>5. CrossedClaims'
  <2>1. Owns(r, p) => r.address[p] = a
    BY <1>1, ClaimAssumption DEF Owns
  <2> QED BY <1>1, <1>4, <2>1, CrossedSent DEF Inv, Crossed
<1>6. OnesOwn'
  BY <1>3, <1>4 DEF OnesOwn, Crossed
<1> QED BY <1>5, <1>6 DEF Crossed

LEMMA UpdateClaimingCrossed ==
  ASSUME Inv, Crossed, NEW p \in Stack, UpdateClaiming(p)
  PROVE  Crossed'
<1> DEFINE m == mgr[p]
<1>1. m \in Manager /\ p \in Node
  BY DEF Inv, TypeOK, Stack
<1>2. <<>> \in Seq(Frames) /\ Range(<<>>) = {}
  BY DEF Range
<1>3. Subdued(m, m, p)
  BY DEF Subdued
<1>4. ASSUME NEW state \in State \ {"AddressClaimingComplete"}
      PROVE  InState(p, state) \in Manager /\ Subdued(m, InState(p, state), p)
  BY <1>1 DEF InState, Manager, Subdued, Owns
<1>5. ASSUME NEW a \in Slot
      PROVE  Moved(m, p, a) \in Manager /\ Moved(m, p, a).address[p] \in {a, Null}
  <2>1. p \in Cf
    BY <1>1 DEF Cf
  <2>2. Moved(m, p, a) \in Manager
    BY <1>1, MovedType
  <2>3. Moved(m, p, a).address[p] \in {a, Null}
    BY <1>1, <2>1, ManagerFields DEF Moved, Manager
  <2> QED BY <2>2, <2>3
<1>6. ASSUME NEW r \in Manager, Subdued(m, r, p), NEW frames \in Seq(Frames),
             EndUpdate(p, r, frames), frames = <<>> \/ frames = <<Request(Null, Global)>>
      PROVE  Crossed'
  <2>1. \A f \in Range(frames) : f.kind = "request"
    BY <1>6 DEF Range, Request
  <2> QED BY <1>6, <2>1, EndUpdateCrossed
<1>7. CASE Rest(p)
  BY <1>1, <1>2, <1>3, <1>6, <1>7 DEF Rest
<1>8. CASE StartClaim(p) \/ EndClaimDelay(p)
  BY <1>2, <1>4, <1>6, <1>8 DEF StartClaim, EndClaimDelay, State
<1>9. CASE SendRequestForClaim(p)
  <2>1. <<Request(Null, Global)>> \in Seq(Frames)
    BY <1>1, SentFrames DEF Slot
  <2> QED BY <1>1, <1>2, <1>3, <1>4, <1>6, <1>9, <2>1 DEF SendRequestForClaim, State
<1>10. CASE EndContention(p)
  <2>1. Decision(m, p) \in State \ {"AddressClaimingComplete"}
    BY DEF Decision, State
  <2> QED BY <1>2, <1>4, <1>6, <1>10, <2>1 DEF EndContention
<1>11. CASE ClaimPreferred(p)
  <2>1. m.preferred \in Slot /\ "None" \in State \ {"AddressClaimingComplete"}
    BY <1>1, ManagerFields DEF State
  <2> QED BY <1>2, <1>4, <1>5, <1>6, <1>11, <2>1, EndUpdateClaims DEF ClaimPreferred
<1>12. CASE ClaimArbitrary(p)
  <2> DEFINE free == {a \in Dynamic : m.table[a] = NoCf}
             a == Min(free)
             claimed == [Moved(m, p, a) EXCEPT !.preferred = IF @ = Null THEN a ELSE @]
  <2>1. free \in SUBSET Nat /\ free \subseteq Slot
    BY ClaimAssumption DEF Slot
  <2>2. free # {} => a \in Slot
    BY <2>1, Least
  <2>3. free # {} => claimed \in Manager /\ claimed.address[p] \in {a, Null}
    <3> HIDE DEF a, free
    <3> QED BY <1>5, <2>2 DEF Manager
  <2>4. "UnableToClaim" \in State \ {"AddressClaimingComplete"}
    BY DEF State
  <2>5. \/ free # {} /\ EndUpdate(p, claimed, <<Claim(p, a)>>)
        \/ EndUpdate(p, InState(p, "UnableToClaim"), <<>>)
    BY <1>12 DEF ClaimArbitrary
  <2> HIDE DEF free, a, claimed
  <2> QED BY <1>2, <1>4, <1>6, <2>2, <2>3, <2>4, <2>5, EndUpdateClaims
<1>13. CASE ReclaimAddress(p)
  <2>1. m.address[p] \in Slot
    BY <1>1, ManagerFields DEF Cf
  <2> QED BY <1>1, <1>2, <1>3, <1>5, <1>6, <1>13, <2>1, EndUpdateClaims DEF ReclaimAddress
<1> QED BY <1>7, <1>8, <1>9, <1>10, <1>11, <1>12, <1>13 DEF UpdateClaiming

LEMMA StepCrossed ==
  ASSUME Inv, Crossed, [Next]_vars
  PROVE  Crossed'
<1>1. ASSUME NEW p \in Stack, ReceiveFrame(p)
      PROVE  Crossed'
  <2> DEFINE f == Head(inbox[p])
  <2>1. inbox[p] \in Seq(Frames) /\ inbox[p] # <<>> /\ msgs[p] \in Seq(Frames)
    BY <1>1 DEF ReceiveFrame, Inv, TypeOK
  <2>2. /\ f \in Frames /\ Range(inbox[p]) = {f} \cup Range(Tail(inbox[p]))
        /\ Range(Append(msgs[p], f)) = Range(msgs[p]) \cup {f}
    BY <2>1, HeadTail, AppendElements
  <2>3. /\ mgr' = [mgr EXCEPT ![p] = UpdateControlFunctions(@, p, f)]
        /\ inbox' = [inbox EXCEPT ![p] = Tail(@)]
        /\ msgs' = [msgs EXCEPT ![p] = Append(@, f)]
    BY <1>1 DEF ReceiveFrame
  <2>4. f.kind = "claim" => f.name # p
    BY <2>2 DEF Crossed, OnesOwn, UnderWay
  <2> HIDE DEF f
  <2>5. PICK r : mgr' = [mgr EXCEPT ![p] = r] /\ Subdued(mgr[p], r, p)
    <3>1. mgr[p] \in Manager
      BY DEF Inv, TypeOK
    <3>2. f.kind = "claim" => Subdued(mgr[p], Claimed(mgr[p], p, f.name, f.src), p)
      BY <2>2, <2>4, <3>1, FrameFields, ClaimedSubdued
    <3>3. Subdued(mgr[p], UpdateControlFunctions(mgr[p], p, f), p)
      BY <3>2 DEF UpdateControlFunctions, Subdued
    <3> QED BY <2>3, <3>3
  <2>6. \A q \in Stack : \A g : UnderWay(g, q)' <=> UnderWay(g, q)
    <3>1. \A q \in Stack : q # p => inbox'[q] = inbox[q] /\ msgs'[q] = msgs[q]
      BY <2>3 DEF Inv, TypeOK
    <3>2. inbox'[p] = Tail(inbox[p]) /\ msgs'[p] = Append(msgs[p], f)
      BY <2>3 DEF Inv, TypeOK
    <3> QED BY <2>2, <3>1, <3>2 DEF UnderWay
  <2>7. CrossedClaims'
    BY <2>5, <2>6, CrossedKept DEF Inv, Crossed
  <2> QED BY <2>6, <2>7 DEF Crossed, OnesOwn
<1>2. ASSUME NEW p \in Stack, CreatePartner(p) \/ BeginUpdate(p)
      PROVE  Crossed'
  <2>1. mgr[p] \in Manager
    BY DEF Inv, TypeOK
  <2>2. PICK r : mgr' = [mgr EXCEPT ![p] = r] /\ Subdued(mgr[p], r, p)
    <3>1. Subdued(mgr[p], [mgr[p] EXCEPT !.partner = "new"], p)
      BY <2>1 DEF Subdued, Owns, Manager
    <3>2. Subdued(mgr[p], UpdateNewPartner(mgr[p], p), p)
      BY <2>1, NewPartnerSubdued
    <3> QED BY <1>2, <3>1, <3>2 DEF CreatePartner, BeginUpdate
  <2>3. UNCHANGED <<inbox, msgs>>
    BY <1>2 DEF CreatePartner, BeginUpdate
  <2>4. \A q \in Stack : \A g : UnderWay(g, q)' <=> UnderWay(g, q)
    BY <2>3 DEF UnderWay
  <2>5. CrossedClaims'
    BY <2>2, <2>4, CrossedKept DEF Inv, Crossed
  <2> QED BY <2>4, <2>5 DEF Crossed, OnesOwn
<1>3. ASSUME NEW p \in Stack, ProcessMessage(p)
      PROVE  Crossed'
  <2> DEFINE f == Head(msgs[p])
             u == UpdateAddressTable(mgr[p], f)
  <2>1. msgs[p] \in Seq(Frames) /\ msgs[p] # <<>>
    BY <1>3 DEF ProcessMessage, Inv, TypeOK
  <2>2. f \in Frames /\ Range(msgs[p]) = {f} \cup Range(Tail(msgs[p]))
    BY <2>1, HeadTail
  <2>3. /\ mgr' = [mgr EXCEPT ![p] = ProcessClaiming(u, p, f)]
        /\ msgs' = [msgs EXCEPT ![p] = Tail(@)] /\ inbox' = inbox
    BY <1>3 DEF ProcessMessage
  <2> HIDE DEF f
  <2>4. PICK r : /\ mgr' = [mgr EXCEPT ![p] = r] /\ Subdued(mgr[p], r, p)
                 /\ f.kind = "claim" /\ f.src \in Address => ~(Owns(r, p) /\ r.address[p] = f.src)
    <3>1. mgr[p] \in Manager
      BY DEF Inv, TypeOK
    <3>2. /\ Subdued(mgr[p], ProcessClaiming(u, p, f), p)
          /\ f.kind = "claim" /\ f.src \in Address =>
               ~(Owns(ProcessClaiming(u, p, f), p) /\ ProcessClaiming(u, p, f).address[p] = f.src)
      BY <2>2, <3>1, MessageSubdued
    <3> HIDE DEF u
    <3> QED BY <2>3, <3>2
  <2>5. /\ \A q \in Stack : q # p => inbox'[q] = inbox[q] /\ msgs'[q] = msgs[q]
        /\ inbox'[p] = inbox[p] /\ msgs'[p] = Tail(msgs[p])
    BY <2>3 DEF Inv, TypeOK
  <2>6. /\ \A q \in Stack : \A g : UnderWay(g, q) => UnderWay(g, q)' \/ (q = p /\ g = f)
        /\ \A q \in Stack : \A g : UnderWay(g, q)' => UnderWay(g, q)
    BY <2>2, <2>5 DEF UnderWay
  <2>7. \A k \in Node, a \in Address : Claim(k, a) = f => ~(Owns(r, p) /\ r.address[p] = a)
    BY <2>4, ClaimAssumption DEF Claim
  <2>8. CrossedClaims'
    BY <2>4, <2>6, <2>7, CrossedKept DEF Inv, Crossed
  <2> QED BY <2>6, <2>8 DEF Crossed, OnesOwn
<1>4. ASSUME NEW p \in Stack, UpdateClaiming(p)
      PROVE  Crossed'
  BY <1>4, UpdateClaimingCrossed
<1>5. ASSUME NEW f \in ForeignFrame, ForeignSends(f)
      PROVE  Crossed'
  <2>1. f \in Frames /\ (f.kind = "claim" => f.name \notin Stack)
    BY ClaimAssumption DEF Stack
  <2>2. /\ inbox' = [n \in Stack |-> Append(inbox[n], f)]
        /\ UNCHANGED <<mgr, msgs>>
    BY <1>5 DEF ForeignSends
  <2>3. \A q \in Stack : \A g : UnderWay(g, q)' <=> UnderWay(g, q) \/ g = f
    <3>1. \A q \in Stack : Range(Append(inbox[q], f)) = Range(inbox[q]) \cup {f}
      BY <2>1, AppendElements DEF Inv, TypeOK
    <3>2. \A q \in Stack : inbox'[q] = Append(inbox[q], f) /\ msgs'[q] = msgs[q]
      BY <2>2
    <3>3. \A q \in Stack : Range(inbox'[q]) = Range(inbox[q]) \cup {f}
      BY <3>1, <3>2
    <3> QED BY <3>2, <3>3 DEF UnderWay
  <2>4. CrossedClaims'
    BY <2>2, <2>3 DEF Crossed, CrossedClaims, Holds, Held
  <2>5. OnesOwn'
    BY <2>1, <2>3 DEF Crossed, OnesOwn
  <2> QED BY <2>4, <2>5 DEF Crossed
<1>6. CASE UNCHANGED vars
  <2>1. UNCHANGED <<mgr, inbox, msgs>>
    BY <1>6 DEF vars
  <2> QED BY <2>1 DEF Crossed, CrossedClaims, OnesOwn, UnderWay, Holds, Held
<1> QED BY <1>1, <1>2, <1>3, <1>4, <1>5, <1>6 DEF Next

LEMMA InitCrossed ==
  ASSUME Init
  PROVE  Crossed
<1>1. \A n \in Stack : inbox[n] = <<>> /\ msgs[n] = <<>> /\ mgr[n].state = "None"
  BY DEF Init
<1>2. Range(<<>>) = {}
  BY DEF Range
<1> QED BY <1>1, <1>2 DEF Crossed, CrossedClaims, OnesOwn, UnderWay, Holds

\* Once every claim on the bus has been read and answered, no two nodes of the
\* stack hold one address: for any number of nodes, whatever the nodes of other
\* makes send, whichever sends are refused, and with partners
THEOREM AddressesDiffer == Spec => []QuietNodesDiffer
<1>1. Init => Crossed
  BY InitCrossed
<1>2. Inv /\ Crossed /\ [Next]_vars => Crossed'
  BY StepCrossed
<1>3. Crossed => QuietNodesDiffer
  <2> SUFFICES ASSUME Crossed, Quiet, NEW n \in Stack, NEW k \in Stack, n # k, Holds(n),
                      Holds(k), Held(n) = Held(k)
               PROVE  FALSE
    BY DEF QuietNodesDiffer
  <2>1. Range(inbox[n]) = {} /\ Range(msgs[n]) = {} /\ Range(inbox[k]) = {} /\ Range(msgs[k]) = {}
    BY DEF Quiet, Range
  <2> QED BY <2>1 DEF Crossed, CrossedClaims, UnderWay
<1> QED BY <1>1, <1>2, <1>3, InvHolds, PTL DEF Spec

-----------------------------------------------------------------------------
(* The lowest NAME *)

\* n is not in the table or the inactive list of the manager m
Unlisted(m, n) == (\A a \in Slot : m.table[a] # n) /\ n \notin Range(m.inactive)
\* A partner that is in them has a NAME
PartnerNamed(m) ==
  (\E a \in Slot : m.table[a] = Partner) \/ Partner \in Range(m.inactive) => m.bound # NoCf

\* The inductive invariant of the lowest NAME n, when it cannot look for another
\* address.  It enters its own table with its first claim, so that any control
\* function it finds at its preferred address before that is a higher NAME; and
\* from then on a claim of a higher NAME only makes it claim again
Claiming == {"None", "WaitForClaim", "SendRequestForClaim", "WaitForRequestContentionPeriod",
             "SendPreferredAddressClaim", "ContendForPreferredAddress"}
Prevails(m, n) ==
  /\ m.preferred # Null
  /\ m.bound # n /\ PartnerNamed(m)
  /\ \/ m.state \in {"AddressClaimingComplete", "SendReclaimAddressOnRequest"}
     \/ m.state \in Claiming /\ Unlisted(m, n)

Lowest(n) == n \in Stack \ Capable /\ \A k \in Node : n <= k
LowestPrevails == \A n \in Stack : Lowest(n) => Prevails(mgr[n], n)

\* What the control functions of r that are listed in it come from
LEMMA PrevailsKept ==
  ASSUME NEW m \in Manager, NEW r \in Manager, NEW n \in Stack, Prevails(m, n),
         r.preferred = m.preferred, r.bound = m.bound,
         \/ r.state = m.state
         \/ r.state = "SendReclaimAddressOnRequest" /\ m.state = "AddressClaimingComplete",
         \A a \in Slot : \/ \E b \in Slot : r.table[a] = m.table[b]
                         \/ r.table[a] \in Range(m.inactive) \cup {NoCf},
         Range(r.inactive) \subseteq Range(m.inactive) \cup {m.table[b] : b \in Slot}
  PROVE  Prevails(r, n)
<1>1. n # NoCf /\ Partner # NoCf
  BY ClaimAssumption DEF Stack, Cf
<1>2. PartnerNamed(r)
  BY <1>1 DEF Prevails, PartnerNamed
<1>3. Unlisted(m, n) => Unlisted(r, n)
  BY <1>1 DEF Unlisted
<1> QED BY <1>2, <1>3 DEF Prevails

LEMMA ClaimedPrevails ==
  ASSUME NEW m \in Manager, NEW n \in Stack, Lowest(n), Prevails(m, n),
         NEW k \in Node, NEW a \in Slot, n # k
  PROVE  Prevails(Claimed(m, n, k, a), n)
<1> DEFINE cf == IF BindsPartner(m, k) THEN Partner ELSE KnownCf(m, k)
           bound == IF BindsPartner(m, k) THEN [m EXCEPT !.bound = k, !.table[a] = Partner] ELSE m
           d == Dispossess(bound, n, cf, k, a)
           c == Claimed(m, n, k, a)
<1>1. n \in Cf /\ n # Partner /\ n # NoCf /\ k # NoCf /\ k # Partner /\ Partner # NoCf
      /\ k \in Cf /\ Null \in Slot
  BY ClaimAssumption DEF Stack, Cf, Slot
<1>2. /\ cf \in Cf \cup {NoCf}
      /\ cf = Partner \/ cf = NoCf \/ cf \in {m.table[b] : b \in Slot} \cup Range(m.inactive)
  <2>1. /\ KnownCf(m, k) \in Cf \cup {NoCf}
        /\ \/ KnownCf(m, k) = NoCf
           \/ KnownCf(m, k) \in {m.table[b] : b \in Slot} \cup Range(m.inactive)
    BY KnownCfType DEF Slot
  <2> QED BY <1>1, <2>1 DEF Cf
<1>3. /\ bound \in Manager /\ bound.state = m.state /\ bound.preferred = m.preferred
      /\ bound.inactive = m.inactive
      /\ \/ BindsPartner(m, k) /\ bound.bound = k /\ cf = Partner
         \/ bound.bound = m.bound /\ bound.table = m.table
      /\ \A b \in Slot : bound.table[b] \in {m.table[b], Partner}
      /\ cf = Partner => bound.bound # NoCf
  <2>1. bound \in Manager
    BY DEF Manager, Cf
  <2>2. /\ bound.state = m.state /\ bound.preferred = m.preferred
        /\ bound.inactive = m.inactive
    BY DEF Manager
  <2>3. CASE BindsPartner(m, k)
    <3>1. bound.bound = k /\ bound.table = [m.table EXCEPT ![a] = Partner]
      BY <2>3 DEF Manager
    <3> QED BY <1>1, <2>1, <2>2, <2>3, <3>1, ManagerFields
  <2>4. CASE ~BindsPartner(m, k)
    <3>1. bound = m
      BY <2>4
    <3>2. cf = Partner => m.bound # NoCf
      BY <1>1, <2>4, KnownCfType DEF Prevails, PartnerNamed, Slot
    <3> QED BY <2>1, <2>2, <3>1, <3>2
  <2> QED BY <2>3, <2>4
<1>4. c = Settle(d, cf, k, a)
  BY DEF Claimed
<1> HIDE DEF cf, bound, c
<1>5. /\ d \in Manager /\ d.table = bound.table /\ d.inactive = bound.inactive
      /\ d.bound = bound.bound
  BY <1>2, <1>3, DispossessType
<1>6. /\ d.preferred = m.preferred
      /\ \/ d.state = m.state
         \/ d.state = "SendReclaimAddressOnRequest" /\ m.state = "AddressClaimingComplete"
  <2>1. n < k
    BY ClaimAssumption DEF Lowest, Stack
  <2>2. PICK lost, state :
          /\ d = [bound EXCEPT !.address = WithoutAddress(@, lost), !.state = state]
          /\ \/ state = bound.state
             \/ state = "SendReclaimAddressOnRequest" /\ bound.state = "AddressClaimingComplete"
    BY <2>1 DEF Dispossess, Wins
  <2> HIDE DEF d
  <2> QED BY <1>3, <2>2 DEF Manager
<1> HIDE DEF d
<1>7. /\ c.state = d.state /\ c.preferred = d.preferred /\ c.bound = d.bound
      /\ c.inactive = d.inactive
      /\ \A b \in Slot : \/ c.table[b] = d.table[b]
                         \/ cf = NoCf /\ c.table[b] = k
                         \/ cf # NoCf /\ c.table[b] \in {cf, NoCf}
  BY <1>1, <1>2, <1>4, <1>5, ManagerFields DEF Settle, Manager
<1>8. c.bound # n
  BY <1>3, <1>5, <1>7 DEF Prevails
<1>9. PartnerNamed(c)
  <2>1. Partner \in Range(c.inactive) => c.bound # NoCf
    BY <1>1, <1>3, <1>5, <1>7 DEF Prevails, PartnerNamed
  <2>2. ASSUME NEW b \in Slot, c.table[b] = Partner
        PROVE  c.bound # NoCf
    BY <1>1, <1>3, <1>5, <1>7, <2>2 DEF Prevails, PartnerNamed
  <2> QED BY <2>1, <2>2 DEF PartnerNamed
<1>10. Unlisted(m, n) => Unlisted(c, n)
  <2> SUFFICES ASSUME Unlisted(m, n) PROVE Unlisted(c, n)
    OBVIOUS
  <2>1. cf # n /\ k # n
    BY <1>1, <1>2 DEF Unlisted
  <2> QED BY <1>1, <1>3, <1>5, <1>7, <2>1 DEF Unlisted
<1>11. c.preferred # Null
  BY <1>6, <1>7 DEF Prevails
<1> QED BY <1>6, <1>7, <1>8, <1>9, <1>10, <1>11 DEF Prevails, c

LEMMA MessagePrevails ==
  ASSUME NEW m \in Manager, NEW n \in Stack, Lowest(n), Prevails(m, n), NEW f \in Frames,
         NEW p, p = ProcessClaiming(UpdateAddressTable(m, f), n, f)
  PROVE  Prevails(p, n)
<1> DEFINE u == UpdateAddressTable(m, f)
<1>1. u \in Manager
  BY UpdateAddressTableType
<1>2. Prevails(u, n)
  <2>1. u.preferred = m.preferred /\ u.bound = m.bound /\ u.state = m.state
    BY DEF UpdateAddressTable, ClaimInTable, RequestInTable, Manager
  <2>2. /\ Range(u.inactive) \subseteq Range(m.inactive) \cup {m.table[b] : b \in Slot}
        /\ \A b \in Slot : \/ u.table[b] = m.table[b]
                           \/ u.table[b] \in Range(m.inactive) \cup {m.table[c] : c \in Slot}
    <3>1. CASE f.kind = "claim"
      <4>1. u = ClaimInTable(m, f.src) /\ f.src \in Slot
        BY <3>1, FrameFields DEF UpdateAddressTable
      <4> HIDE DEF u
      <4> QED BY <4>1, ClaimInTableType
    <3>2. CASE f.kind # "claim"
      BY <3>2 DEF UpdateAddressTable, RequestInTable, Manager
    <3> QED BY <3>1, <3>2
  <2> HIDE DEF u
  <2>3. \A a \in Slot : \/ \E b \in Slot : u.table[a] = m.table[b]
                        \/ u.table[a] \in Range(m.inactive) \cup {NoCf}
    BY <2>2
  <2> QED BY <1>1, <2>1, <2>2, <2>3, PrevailsKept
<1> HIDE DEF u
<1>3. p = ProcessClaiming(u, n, f)
  BY DEF u
<1>4. /\ p \in Manager /\ p.table = u.table /\ p.inactive = u.inactive /\ p.bound = u.bound
  BY <1>1, <1>3, ProcessClaimingType
<1>5. /\ p.preferred = u.preferred
      /\ \/ p.state = u.state
         \/ p.state = "SendReclaimAddressOnRequest" /\ u.state = "AddressClaimingComplete"
  <2>1. \/ p = u
        \/ /\ p = [u EXCEPT !.state = "SendReclaimAddressOnRequest"]
           /\ u.state = "AddressClaimingComplete"
    BY <1>3 DEF ProcessClaiming, Lowest
  <2> QED BY <1>1, <2>1 DEF Manager
<1> QED BY <1>1, <1>2, <1>4, <1>5 DEF Prevails, PartnerNamed, Unlisted

LEMMA NewPartnerPrevails ==
  ASSUME NEW m \in Manager, NEW n \in Stack, Prevails(m, n)
  PROVE  Prevails(UpdateNewPartner(m, n), n)
<1> DEFINE cf == m.table[Min(Matches(m, n))]
           listed == MatchesListed(m, n)
           inactive == IF listed = {} THEN m.inactive ELSE RemoveAt(m.inactive, Min(listed))
           u == UpdateNewPartner(m, n)
<1>1. Matches(m, n) # {} => cf \in Node /\ cf # n
  <2>1. Matches(m, n) \in SUBSET Nat
    BY ClaimAssumption DEF Matches
  <2>2. Matches(m, n) # {} => Min(Matches(m, n)) \in Matches(m, n)
    BY <2>1, Least
  <2> QED BY <2>2, ClaimAssumption DEF Matches
<1>2. Range(inactive) \subseteq Range(m.inactive)
  <2>1. m.inactive \in Seq(Cf)
    BY ManagerFields
  <2>2. CASE listed # {}
    <3>1. listed \in SUBSET Nat
      BY <2>1 DEF MatchesListed
    <3>2. Min(listed) \in listed
      BY <2>2, <3>1, Least
    <3>3. Min(listed) \in 1 .. Len(m.inactive)
      BY <2>1, <3>2 DEF MatchesListed
    <3>4. \A x \in Range(inactive) : \E j \in DOMAIN m.inactive : x = m.inactive[j]
      BY <2>1, <2>2, <3>3, RemoveAtElements
    <3> HIDE DEF inactive
    <3> QED BY <3>4 DEF Range
  <2> QED BY <2>2
<1> HIDE DEF listed, inactive
<1>3. CASE m.partner # "new"
  BY <1>3 DEF UpdateNewPartner
<1>4. CASE m.partner = "new" /\ Matches(m, n) = {}
  <2>1. u = [m EXCEPT !.partner = "known", !.inactive = inactive]
    BY <1>4 DEF UpdateNewPartner, inactive, listed
  <2> HIDE DEF u
  <2>2. /\ u.state = m.state /\ u.preferred = m.preferred /\ u.bound = m.bound
        /\ u.table = m.table /\ u.inactive = inactive
    BY <2>1 DEF Manager
  <2>3. Prevails(u, n)
    BY <1>2, <2>2 DEF Prevails, PartnerNamed, Unlisted
  <2> QED BY <2>3 DEF u
<1>5. CASE m.partner = "new" /\ Matches(m, n) # {}
  <2>1. u = [[m EXCEPT !.partner = "known", !.inactive = inactive]
               EXCEPT !.bound = cf, !.address[Partner] = m.address[cf],
                      !.table[m.address[cf]] = Partner]
    BY <1>5 DEF UpdateNewPartner, inactive, listed
  <2>2. cf \in Node /\ cf # n
    BY <1>1, <1>5
  <2> HIDE DEF u, cf
  <2>3. /\ u.state = m.state /\ u.preferred = m.preferred /\ u.bound = cf
        /\ u.inactive = inactive /\ \A b \in Slot : u.table[b] \in {m.table[b], Partner}
    BY <2>1, ManagerFields DEF Manager
  <2>4. n # Partner /\ cf # NoCf
    BY <2>2, ClaimAssumption DEF Stack, Cf
  <2>5. Unlisted(m, n) => Unlisted(u, n)
    BY <1>2, <2>3, <2>4 DEF Unlisted
  <2>6. Prevails(u, n)
    BY <2>2, <2>3, <2>4, <2>5 DEF Prevails, PartnerNamed
  <2> QED BY <2>6 DEF u
<1> QED BY <1>3, <1>4, <1>5

LEMMA MovedPrevails ==
  ASSUME NEW m \in Manager, NEW n \in Stack, NEW a \in Slot, Prevails(m, n)
  PROVE  Prevails(Moved(m, n, a), n)
<1> DEFINE r == Moved(m, n, a)
<1>1. /\ \A b \in Slot : r.table[b] \in {m.table[b], NoCf, n}
      /\ r.inactive = m.inactive /\ r.bound = m.bound
  BY MovedType
<1>2. r.state = "AddressClaimingComplete" /\ r.preferred = m.preferred
  BY DEF Moved, Manager
<1> HIDE DEF r
<1>3. n # Partner /\ Partner # NoCf
  BY ClaimAssumption DEF Stack, Cf
<1>4. Prevails(r, n)
  BY <1>1, <1>2, <1>3 DEF Prevails, PartnerNamed
<1> QED BY <1>4 DEF r

LEMMA PrunedPrevails ==
  ASSUME NEW m \in Manager, NEW n \in Stack, Prevails(m, n)
  PROVE  Prevails(Pruned(m, n), n)
<1> DEFINE r == Pruned(m, n)
<1>1. /\ r \in Manager /\ \A b \in Slot : r.table[b] \in {m.table[b], NoCf}
      /\ Range(r.inactive) \subseteq Range(m.inactive) \cup {m.table[b] : b \in Slot}
      /\ r.bound = m.bound
  BY PrunedType
<1>2. r.state = m.state /\ r.preferred = m.preferred
  BY DEF Pruned, Manager
<1> HIDE DEF r
<1>3. Prevails(r, n)
  BY <1>1, <1>2, PrevailsKept
<1> QED BY <1>3 DEF r

\* The step of the address claiming, up to the pruning
LEMMA UpdateClaimingPrevails ==
  ASSUME Inv, NEW n \in Stack, Lowest(n), Prevails(mgr[n], n), UpdateClaiming(n)
  PROVE  Prevails(mgr'[n], n)
<1> DEFINE m == mgr[n]
<1>1. m \in Manager /\ n \in Node /\ n \notin Capable /\ mgr \in [Stack -> Manager]
  BY DEF Inv, TypeOK, Stack, Lowest
<1>2. ASSUME NEW r \in Manager, Prevails(r, n), NEW frames, EndUpdate(n, r, frames)
      PROVE  Prevails(mgr'[n], n)
  <2>1. mgr'[n] = r \/ mgr'[n] = Pruned(r, n)
    BY <1>1, <1>2 DEF EndUpdate
  <2> QED BY <1>2, <2>1, PrunedPrevails
<1>3. ASSUME NEW state \in Claiming, m.state \in Claiming
      PROVE  InState(n, state) \in Manager /\ Prevails(InState(n, state), n)
  <2> DEFINE r == InState(n, state)
  <2>1. r = [m EXCEPT !.state = state]
    BY DEF InState
  <2> HIDE DEF m, r
  <2>2. /\ r \in Manager /\ r.table = m.table /\ r.inactive = m.inactive
        /\ r.preferred = m.preferred /\ r.bound = m.bound /\ r.state = state
    BY <1>1, <1>3, <2>1 DEF Manager, Claiming, State
  <2>3. Prevails(r, n)
    BY <1>3, <2>2 DEF Prevails, PartnerNamed, Unlisted, Claiming, m
  <2> QED BY <2>2, <2>3 DEF r
<1>4. ASSUME NEW a \in Slot
      PROVE  Moved(m, n, a) \in Manager /\ Prevails(Moved(m, n, a), n)
  BY <1>1, MovedType, MovedPrevails
<1>5. CASE Rest(n)
  BY <1>1, <1>2, <1>5 DEF Rest
<1>6. CASE StartClaim(n) \/ EndClaimDelay(n)
  BY <1>2, <1>3, <1>6 DEF StartClaim, EndClaimDelay, Claiming
<1>7. CASE SendRequestForClaim(n)
  BY <1>1, <1>2, <1>3, <1>7 DEF SendRequestForClaim, Claiming
<1>8. CASE EndContention(n)
  <2>1. m.state = "WaitForRequestContentionPeriod"
    BY <1>8 DEF EndContention
  <2>2. Unlisted(m, n) /\ m.preferred \in Slot /\ m.preferred # Null
    BY <1>1, <2>1, ManagerFields DEF Prevails
  <2>3. ASSUME CfAt(m, m.preferred) # NoCf
        PROVE  Wins(n, NameOf(m, CfAt(m, m.preferred)))
    <3> DEFINE k == NameOf(m, CfAt(m, m.preferred))
    <3>0. CfAt(m, m.preferred) = m.table[m.preferred]
      BY <2>3 DEF CfAt
    <3>1. m.table[m.preferred] \in Cf /\ m.bound \in Node \cup {NoCf}
      BY <1>1, <2>2, <2>3, <3>0, ManagerFields
    <3>2. m.table[m.preferred] # n
      BY <2>2 DEF Unlisted
    <3>3. k \in Node /\ k # n
      BY <2>2, <3>0, <3>1, <3>2 DEF NameOf, Cf, Prevails, PartnerNamed
    <3> HIDE DEF k
    <3>4. n < k
      BY <1>1, <3>3, ClaimAssumption DEF Lowest
    <3> QED BY <3>4 DEF Wins, k
  <2>4. Decision(m, n) \in Claiming
    BY <1>1, <2>2, <2>3 DEF Decision, Claiming
  <2> QED BY <1>2, <1>3, <1>8, <2>1, <2>4 DEF EndContention, Claiming
<1>9. CASE ClaimPreferred(n)
  <2>1. m.preferred \in Slot
    BY <1>1, ManagerFields
  <2> QED BY <1>2, <1>3, <1>4, <1>9, <2>1 DEF ClaimPreferred, Claiming
<1>10. CASE ClaimArbitrary(n)
  BY <1>10 DEF ClaimArbitrary, Prevails, Claiming
<1>11. CASE ReclaimAddress(n)
  <2>1. m.address[n] \in Slot
    BY <1>1, ManagerFields DEF Cf
  <2> QED BY <1>1, <1>2, <1>4, <1>11, <2>1 DEF ReclaimAddress
<1> QED BY <1>5, <1>6, <1>7, <1>8, <1>9, <1>10, <1>11 DEF UpdateClaiming

LEMMA StepPrevails ==
  ASSUME Inv, OnesOwn, LowestPrevails, [Next]_vars
  PROVE  LowestPrevails'
<1> SUFFICES ASSUME NEW n \in Stack, Lowest(n), Prevails(mgr[n], n)
             PROVE  Prevails(mgr'[n], n)
  BY DEF LowestPrevails, Lowest
<1>1. mgr \in [Stack -> Manager] /\ mgr[n] \in Manager
  BY DEF Inv, TypeOK
<1>2. ASSUME NEW p \in Stack, ReceiveFrame(p)
      PROVE  Prevails(mgr'[n], n)
  <2> DEFINE f == Head(inbox[p])
  <2>1. inbox[p] \in Seq(Frames) /\ inbox[p] # <<>>
    BY <1>2 DEF ReceiveFrame, Inv, TypeOK
  <2>2. f \in Frames /\ f \in Range(inbox[p])
    BY <2>1, HeadTail
  <2>3. mgr' = [mgr EXCEPT ![p] = UpdateControlFunctions(@, p, f)]
    BY <1>2 DEF ReceiveFrame
  <2>4. f.kind = "claim" => f.name # p
    BY <2>2 DEF OnesOwn, UnderWay
  <2> HIDE DEF f
  <2>5. CASE p = n
    <3>1. mgr'[n] = UpdateControlFunctions(mgr[n], n, f)
      BY <1>1, <2>3, <2>5
    <3>2. f.kind = "claim" => Prevails(Claimed(mgr[n], n, f.name, f.src), n)
      BY <1>1, <2>2, <2>4, <2>5, FrameFields, ClaimedPrevails
    <3> QED BY <3>1, <3>2 DEF UpdateControlFunctions
  <2>6. CASE p # n
    BY <1>1, <2>3, <2>6
  <2> QED BY <2>5, <2>6
<1>3. ASSUME NEW p \in Stack, CreatePartner(p)
      PROVE  Prevails(mgr'[n], n)
  <2> DEFINE r == [mgr[n] EXCEPT !.partner = "new"]
  <2>1. mgr'[n] = mgr[n] \/ mgr'[n] = r
    BY <1>1, <1>3 DEF CreatePartner
  <2>2. /\ r.state = mgr[n].state /\ r.preferred = mgr[n].preferred /\ r.bound = mgr[n].bound
        /\ r.table = mgr[n].table /\ r.inactive = mgr[n].inactive
    BY <1>1 DEF Manager
  <2> HIDE DEF r
  <2>3. Prevails(r, n)
    BY <2>2 DEF Prevails, PartnerNamed, Unlisted
  <2> QED BY <2>1, <2>3
<1>4. ASSUME NEW p \in Stack, BeginUpdate(p)
      PROVE  Prevails(mgr'[n], n)
  <2>1. mgr'[n] = mgr[n] \/ mgr'[n] = UpdateNewPartner(mgr[n], n)
    BY <1>1, <1>4 DEF BeginUpdate
  <2> QED BY <1>1, <2>1, NewPartnerPrevails
<1>5. ASSUME NEW p \in Stack, ProcessMessage(p)
      PROVE  Prevails(mgr'[n], n)
  <2> DEFINE f == Head(msgs[p])
             r == ProcessClaiming(UpdateAddressTable(mgr[n], f), n, f)
  <2>1. msgs[p] \in Seq(Frames) /\ msgs[p] # <<>>
    BY <1>5 DEF ProcessMessage, Inv, TypeOK
  <2>2. f \in Frames
    BY <2>1, HeadTail
  <2>3. mgr'[n] = mgr[n] \/ mgr'[n] = r
    BY <1>1, <1>5 DEF ProcessMessage
  <2> HIDE DEF f
  <2>4. Prevails(r, n)
    BY <1>1, <2>2, MessagePrevails
  <2> QED BY <2>3, <2>4
<1>6. ASSUME NEW p \in Stack, UpdateClaiming(p)
      PROVE  Prevails(mgr'[n], n)
  <2>1. CASE p = n
    BY <1>6, <2>1, UpdateClaimingPrevails
  <2>2. CASE p # n
    <3>1. \E r : mgr' = [mgr EXCEPT ![p] = r]
      BY <1>6 DEF UpdateClaiming, Rest, StartClaim, EndClaimDelay, SendRequestForClaim,
                  EndContention, ClaimPreferred, ClaimArbitrary, ReclaimAddress, EndUpdate
    <3> QED BY <1>1, <2>2, <3>1
  <2> QED BY <2>1, <2>2
<1>7. CASE UNCHANGED mgr
  BY <1>7
<1> QED BY <1>2, <1>3, <1>4, <1>5, <1>6, <1>7 DEF Next, ForeignSends, vars

\* The lowest NAME on the bus, when it is not arbitrary address capable, is never
\* left unable to claim: whatever the others claim meanwhile, whichever of its
\* sends are refused
THEOREM LowestClaims == Spec => []LowestNameClaims
<1>1. Init => Crossed
  BY InitCrossed
<1>2. Init => LowestPrevails
  <2> SUFFICES ASSUME Init, NEW n \in Stack, Lowest(n) PROVE Prevails(mgr[n], n)
    BY DEF LowestPrevails
  <2>1. /\ mgr[n].state = "None" /\ mgr[n].preferred = Preferred[n] /\ mgr[n].bound = NoCf
        /\ mgr[n].table = [a \in Slot |-> NoCf] /\ mgr[n].inactive = <<>>
    BY DEF Init
  <2>2. Preferred[n] # Null /\ n # NoCf /\ Partner # NoCf
    BY ClaimAssumption DEF Lowest, Stack, Cf
  <2>3. Range(<<>>) = {}
    BY DEF Range
  <2> QED BY <2>1, <2>2, <2>3 DEF Prevails, PartnerNamed, Unlisted, Claiming
<1>3. Inv /\ Crossed /\ [Next]_vars => Crossed'
  BY StepCrossed
<1>4. Inv /\ Crossed /\ LowestPrevails /\ [Next]_vars => LowestPrevails'
  BY StepPrevails DEF Crossed
<1>5. LowestPrevails => LowestNameClaims
  BY DEF LowestPrevails, LowestNameClaims, Lowest, Prevails, Claiming
<1> QED BY <1>1, <1>2, <1>3, <1>4, <1>5, InvHolds, PTL DEF Spec
=============================================================================
