---------------------------- MODULE AddressClaim ----------------------------
(***************************************************************************)
(* Address claim of the nodes on one channel, and the table from addresses *)
(* to control functions every node keeps of the bus:                       *)
(* isobus/src/can_network_manager.cpp, can_internal_control_function.cpp.  *)
(*                                                                         *)
(* A node is named by the NAME of its control function; the lower NAME     *)
(* wins.  A node of the stack runs one CANNetworkManager with one internal *)
(* control function and at most one partner.  mgr[n] is its memory.  In it *)
(* a control function is                                                   *)
(*   n        the internal control function,                               *)
(*   k # n    the external one that was created for the NAME k,            *)
(*   Partner  the partner, whose NAME is mgr[n].bound.                     *)
(* Foreign nodes run another implementation.                               *)
(*                                                                         *)
(* The update thread handles a claim in two phases: when it takes the      *)
(* frame from the driver's queue (inbox), and when the network manager's   *)
(* next update takes the message from receivedMessageQueue (msgs).         *)
(***************************************************************************)
EXTENDS Integers, Sequences, FiniteSets, FiniteSetsExt, SequencesExt, Positions

CONSTANTS
  Node,        \* the NAMEs on the bus
  Foreign,     \* those of other makes
  Address,     \* the addresses a control function can have
  Null,        \* NULL_CAN_ADDRESS, 254
  Global,      \* BROADCAST_CAN_ADDRESS, 255
  Dynamic,     \* the addresses an arbitrary address capable NAME may use
  Capable,     \* the NAMEs that are arbitrary address capable
  Preferred,   \* the preferred address of a control function, or Null
  Matching,    \* the NAMEs a partner's filters match
  Partner,
  NoCf,        \* the null pointer
  ForeignFrame,\* the frames foreign nodes may put on the bus
  MaxForeign,  \* bound on the frames of foreign nodes
  MaxRefused,  \* bound on the sends a full transmit queue refuses
  MaxPartners  \* 1 if the application creates a partner, else 0

Stack == Node \ Foreign
Cf == Node \cup {Partner}
\* The values of the byte an address is stored in: no frame's source and no
\* commanded address is compared with the addresses there are
Slot == Address \cup {Null, Global}

Frames == UNION {[kind : {"claim"}, name : Node, src : Slot],
                 [kind : {"request"}, src : Slot, dst : Slot],
                 [kind : {"command"}, src : Slot, name : Node, new : Slot],
                 [kind : {"other"}, src : Slot]}

ASSUME ClaimAssumption ==
  /\ Node \subseteq Nat /\ IsFiniteSet(Node) /\ Foreign \subseteq Node
  /\ Address \subseteq Nat /\ IsFiniteSet(Address)
  /\ Null \notin Address /\ Global \notin Address /\ Null # Global
  /\ Dynamic \subseteq Address /\ Capable \subseteq Node /\ Matching \subseteq Node
  /\ Preferred \in [Stack -> Address \cup {Null}]
  /\ \A n \in Stack : Preferred[n] = Null => n \in Capable
  /\ Partner \notin Node /\ NoCf \notin Cf
  /\ ForeignFrame \subseteq {f \in Frames : f.kind = "claim" => f.name \in Foreign}
  /\ MaxForeign \in Nat /\ MaxRefused \in Nat /\ MaxPartners \in 0 .. 1

VARIABLES
  mgr,     \* mgr[n]: the network manager of n and its internal control function
  turn,    \* turn[n]: the update thread of n reads frames or handles messages
  inbox,   \* inbox[n]: frames on their way to n's network manager
  msgs,    \* msgs[n]: receivedMessageQueue
  heard,   \* heard[n], a history variable: the NAMEs whose claims n has processed
           \* since the last request for claims
  missed,  \* missed[n], a history variable: there was more to match the new partner
           \* of n than update_new_partners() reaches
  foreign, \* frames foreign nodes have sent
  refused  \* sends that were refused

vars == <<mgr, turn, inbox, msgs, heard, missed, foreign, refused>>

State == {"None", "WaitForClaim", "SendRequestForClaim",
          "WaitForRequestContentionPeriod", "SendPreferredAddressClaim",
          "ContendForPreferredAddress", "SendArbitraryAddressClaim",
          "SendReclaimAddressOnRequest", "UnableToClaim", "AddressClaimingComplete"}

Claim(k, a) == [kind |-> "claim", name |-> k, src |-> a]
Request(src, dst) == [kind |-> "request", src |-> src, dst |-> dst]
Command(src, k, a) == [kind |-> "command", src |-> src, name |-> k, new |-> a]
Other(src) == [kind |-> "other", src |-> src]

-----------------------------------------------------------------------------
(* The table *)

\* controlFunctionTable has no elements for the addresses 254 and 255; an access
\* to them reaches the elements behind the channel's array, which are the first
\* two of the next channel.  They are kept as table[Null] and table[Global]; the
\* searches end before them.
InTable(m) == {m.table[a] : a \in Address} \ {NoCf}

\* get_control_function(), which looks at the address
CfAt(m, a) == IF a \in Address THEN m.table[a] ELSE NoCf

NameOf(m, cf) == IF cf = Partner THEN m.bound ELSE cf

\* The addresses when those in S have lost theirs
WithoutAddress(address, S) == [cf \in Cf |-> IF cf \in S THEN Null ELSE address[cf]]

-----------------------------------------------------------------------------
(* First phase: a claim of the NAME k for the address a is read *)

\* The control function with the NAME: in the table, or else the inactive list
KnownCf(m, k) ==
  LET slots == {a \in Address : m.table[a] # NoCf /\ NameOf(m, m.table[a]) = k}
      listed == {i \in DOMAIN m.inactive : NameOf(m, m.inactive[i]) = k}
  IN CASE slots # {} -> m.table[Min(slots)]
       [] slots = {} /\ listed # {} -> m.inactive[Min(listed)]
       [] OTHER -> NoCf

\* Nobody has the NAME: a partner without one that matches takes it
BindsPartner(m, k) ==
  /\ KnownCf(m, k) = NoCf
  /\ m.partner # "none" /\ m.bound = NoCf
  /\ k \in Matching

\* Variant: the NAMEs are not compared
Keeps(n, k) == TRUE
\* The lower NAME keeps its address
Wins(n, k) == n < k

\* Everybody but cf loses the address; not the internal control function that
\* has completed its claim and the lower NAME
Dispossess(m, n, cf, k, a) ==
  LET active == {x \in InTable(m) \ {cf} : m.address[x] = a}
      listed == {x \in Range(m.inactive) \ {cf} : m.address[x] = a}
      hit == n \in active /\ m.state = "AddressClaimingComplete"
      won == hit /\ Wins(n, k)
      lost == (IF won THEN active \ {n} ELSE active) \cup listed
  IN [m EXCEPT !.address = WithoutAddress(@, lost),
               !.state = CASE won -> "SendReclaimAddressOnRequest"
                           [] hit /\ ~won -> "WaitForRequestContentionPeriod"
                           [] OTHER -> @]

\* Variant: the slot of the old address is not cleared
SettleTwice(m, cf, k, a) ==
  CASE cf = NoCf -> [m EXCEPT !.address[k] = a, !.flagged[k] = FALSE,
                              !.table[a] = IF a \in Address THEN k ELSE @]
    [] cf # NoCf /\ a \in Address /\ m.address[cf] \in Address \ {a} ->
         [m EXCEPT !.address[cf] = a, !.table[a] = cf]
    [] cf # NoCf /\ a \in Address /\ m.address[cf] \notin Address -> [m EXCEPT !.address[cf] = a]
    [] OTHER -> m
\* cf is a new external control function, or moves to its new address
Settle(m, cf, k, a) ==
  LET old == IF cf = NoCf THEN Null ELSE m.address[cf]
  IN CASE cf = NoCf -> [m EXCEPT !.address[k] = a, !.flagged[k] = FALSE,
                                 !.table[a] = IF a \in Address THEN k ELSE @]
       [] cf # NoCf /\ a \in Address /\ old \in Address \ {a} ->
            [m EXCEPT !.address[cf] = a, !.table = [@ EXCEPT ![a] = cf, ![old] = NoCf]]
       [] cf # NoCf /\ a \in Address /\ old \notin Address -> [m EXCEPT !.address[cf] = a]
       [] OTHER -> m

Claimed(m, n, k, a) ==
  LET cf == IF BindsPartner(m, k) THEN Partner ELSE KnownCf(m, k)
      bound == IF BindsPartner(m, k)
               THEN [m EXCEPT !.bound = k, !.table[a] = Partner]
               ELSE m
  IN Settle(Dispossess(bound, n, cf, k, a), cf, k, a)

UpdateControlFunctions(m, n, f) ==
  IF f.kind = "claim" THEN Claimed(m, n, f.name, f.src) ELSE m

-----------------------------------------------------------------------------
(* Second phase: the message is taken from the queue by update() *)

\* The claim of an address: whoever is in the slot without an address goes to
\* the inactive list, though it stays in the slot and may be on the list, and the
\* first on that list that has the address takes the slot, though it stays listed
ClaimInTable(m, a) ==
  LET target == m.table[a]
      evicted == target # NoCf /\ m.address[target] = Null
      inactive == IF evicted THEN Append(m.inactive, target) ELSE m.inactive
      waiting == {i \in DOMAIN inactive : m.address[inactive[i]] = a}
  IN CASE target # NoCf /\ ~evicted -> [m EXCEPT !.flagged[target] = TRUE]
       [] (target = NoCf \/ evicted) /\ waiting # {} ->
            [m EXCEPT !.inactive = inactive, !.table[a] = inactive[Min(waiting)]]
       [] OTHER -> [m EXCEPT !.inactive = inactive]

\* A request to everybody: those in the table have to claim again
RequestInTable(m) ==
  [m EXCEPT !.requested = TRUE,
            !.flagged = [cf \in Cf |->
               IF cf \in InTable(m) THEN FALSE
               ELSE (m.inactive # <<>> /\ cf = Head(m.inactive)) \/ @[cf]]]

UpdateAddressTable(m, f) ==
  CASE f.kind = "claim" -> ClaimInTable(m, f.src)
    [] f.kind = "request" /\ f.dst = Global -> RequestInTable(m)
    [] OTHER -> m

\* Somebody else uses our address
Violated(m, n, f) ==
  f.kind # "command" /\ f.src \in Address /\ f.src = m.address[n]

\* No address is refused: 254 and 255 count as free
CommandedState(m, n, a) ==
  CASE CfAt(m, a) = NoCf -> "SendPreferredAddressClaim"
    [] CfAt(m, a) # NoCf /\ Wins(NameOf(m, CfAt(m, a)), n) -> "SendArbitraryAddressClaim"
    [] OTHER -> m.state

\* process_rx_message_for_address_violation(), then ..._for_address_claiming():
\* the first one leaves the state the second one looks for
ProcessClaiming(m, n, f) ==
  LET complete == m.state = "AddressClaimingComplete"
      requested == f.kind = "request" /\ (f.dst = Global \/ (f.dst \in Address /\ f.dst = m.address[n]))
  IN CASE complete /\ (Violated(m, n, f) \/ requested) ->
            [m EXCEPT !.state = "SendReclaimAddressOnRequest"]
       [] complete /\ f.kind = "command" /\ f.name = n /\ n \in Capable ->
            [m EXCEPT !.preferred = f.new, !.state = CommandedState(m, n, f.new)]
       [] OTHER -> m

-----------------------------------------------------------------------------
(* The update thread *)

Init ==
  /\ mgr = [n \in Stack |->
       [state |-> "None", preferred |-> Preferred[n],
        table |-> [a \in Slot |-> NoCf], address |-> [cf \in Cf |-> Null],
        flagged |-> [cf \in Cf |-> FALSE], inactive |-> <<>>, requested |-> FALSE,
        partner |-> "none", bound |-> NoCf]]
  /\ turn = [n \in Stack |-> "frames"]
  /\ inbox = [n \in Stack |-> <<>>]
  /\ msgs = [n \in Stack |-> <<>>]
  /\ heard = [n \in Stack |-> {}]
  /\ missed = [n \in Stack |-> FALSE]
  /\ foreign = 0
  /\ refused = 0

\* process_receive_can_message_frame()
ReceiveFrame(n) ==
  /\ turn[n] = "frames" /\ inbox[n] # <<>>
  /\ mgr' = [mgr EXCEPT ![n] = UpdateControlFunctions(@, n, Head(inbox[n]))]
  /\ inbox' = [inbox EXCEPT ![n] = Tail(@)]
  /\ msgs' = [msgs EXCEPT ![n] = Append(@, Head(inbox[n]))]
  /\ UNCHANGED <<turn, heard, missed, foreign, refused>>

\* The application creates its partner, from another thread
CreatePartner(n) ==
  /\ MaxPartners = 1 /\ mgr[n].partner = "none"
  /\ mgr' = [mgr EXCEPT ![n].partner = "new"]
  /\ UNCHANGED <<turn, inbox, msgs, heard, missed, foreign, refused>>

\* The external control functions the filters of a partner match: by the address
\* they have in the table, and by their position in the inactive list
Matches(m, n) == {a \in Address : m.table[a] \in Matching \ {n}}
MatchesListed(m, n) == {i \in DOMAIN m.inactive : m.inactive[i] \in Matching \ {n}}
\* Those update_new_partners() does not reach: it erases one entry of the list
LeavesMatch(m, n) ==
  \/ \E i, j \in MatchesListed(m, n) : i # j
  \/ {m.table[Null], m.table[Global]} \cap (Matching \ {n}) # {}
\* Variant: an external control function that is known already is not looked for
PartnerKnown(m, n) == IF m.partner = "new" THEN [m EXCEPT !.partner = "known"] ELSE m
\* A new partner takes one of them off the list and replaces one in the table
UpdateNewPartner(m, n) ==
  LET cf == m.table[Min(Matches(m, n))]
      listed == MatchesListed(m, n)
      known == [m EXCEPT !.partner = "known",
                         !.inactive = IF listed = {} THEN @ ELSE RemoveAt(@, Min(listed))]
  IN CASE m.partner # "new" -> m
       [] m.partner = "new" /\ Matches(m, n) = {} -> known
       [] OTHER -> [known EXCEPT !.bound = cf, !.address[Partner] = m.address[cf],
                                 !.table[m.address[cf]] = Partner]

\* update(), up to the received messages
BeginUpdate(n) ==
  /\ turn[n] = "frames"
  /\ turn' = [turn EXCEPT ![n] = "messages"]
  /\ mgr' = [mgr EXCEPT ![n] = UpdateNewPartner(@, n)]
  /\ missed' = [missed EXCEPT ![n] = @ \/ (mgr[n].partner = "new" /\ LeavesMatch(mgr[n], n))]
  /\ UNCHANGED <<inbox, msgs, heard, foreign, refused>>

HeardAfter(names, f) ==
  CASE f.kind = "claim" -> names \cup {f.name}
    [] f.kind = "request" /\ f.dst = Global -> {}
    [] OTHER -> names

\* One message of process_rx_messages()
ProcessMessage(n) ==
  LET f == Head(msgs[n])
  IN /\ turn[n] = "messages" /\ msgs[n] # <<>>
     /\ mgr' = [mgr EXCEPT ![n] = ProcessClaiming(UpdateAddressTable(@, f), n, f)]
     /\ msgs' = [msgs EXCEPT ![n] = Tail(@)]
     /\ heard' = [heard EXCEPT ![n] = HeardAfter(@, f)]
     /\ UNCHANGED <<turn, inbox, missed, foreign, refused>>

\* update_internal_cfs() after a claim of the address a was sent
Moved(m, n, a) ==
  LET slots == {b \in Address : m.table[b] = n}
      left == IF slots = {} THEN m.table ELSE [m.table EXCEPT ![Min(slots)] = NoCf]
      address == [m.address EXCEPT ![n] = a]
  IN [m EXCEPT !.address = IF left[a] = NoCf THEN address ELSE [address EXCEPT ![left[a]] = Null],
               !.table = [left EXCEPT ![a] = n],
               !.state = "AddressClaimingComplete"]

\* prune_inactive_control_functions(), when the time to claim is over
Silent(m, n) ==
  {a \in Address : m.table[a] \notin {NoCf, n} /\ ~m.flagged[m.table[a]]}
\* Variant: the slot is cleared before what it holds goes to the list
PrunedEmptied(m, n) ==
  LET S == Silent(m, n)
      table == [a \in Slot |-> IF a \in S THEN NoCf ELSE m.table[a]]
  IN [m EXCEPT !.requested = FALSE, !.table = table,
               !.address = WithoutAddress(@, {m.table[a] : a \in S}),
               !.inactive = @ \o [k \in 1 .. Cardinality(S) |-> table[Nth(k, S)]]]
Pruned(m, n) ==
  LET S == Silent(m, n)
      gone == {m.table[a] : a \in S}
  IN [m EXCEPT !.requested = FALSE,
               !.table = [a \in Slot |-> IF a \in S THEN NoCf ELSE @[a]],
               !.address = WithoutAddress(@, gone),
               !.inactive = @ \o [k \in 1 .. Cardinality(S) |-> m.table[Nth(k, S)]]]

\* The rest of update(): update_internal_cfs() has turned the manager into m,
\* the pruning may be due, and then the frames are put on the bus.  A node's own
\* request for claims comes back to its queue.
EndUpdate(n, m, frames) ==
  /\ turn[n] = "messages" /\ msgs[n] = <<>>
  /\ turn' = [turn EXCEPT ![n] = "frames"]
  /\ \/ mgr' = [mgr EXCEPT ![n] = m]
     \/ m.requested /\ mgr' = [mgr EXCEPT ![n] = Pruned(m, n)]
  /\ inbox' = [k \in Stack |-> IF k = n THEN inbox[k] ELSE inbox[k] \o frames]
  /\ msgs' = [msgs EXCEPT ![n] = IF \E f \in Range(frames) : f.kind = "request" THEN frames ELSE <<>>]
  /\ UNCHANGED <<heard, missed, foreign>>

\* The transmit queue takes a frame, or refuses it
Accepted == refused' = refused
Refused == refused < MaxRefused /\ refused' = refused + 1

InState(n, state) == [mgr[n] EXCEPT !.state = state]

-----------------------------------------------------------------------------
(* InternalControlFunction::update_address_claiming(), by the state *)

\* Nothing to send, or a delay that has not expired
Rest(n) ==
  /\ mgr[n].state \in {"WaitForClaim", "WaitForRequestContentionPeriod", "UnableToClaim",
                       "AddressClaimingComplete"}
  /\ EndUpdate(n, mgr[n], <<>>)
  /\ Accepted

StartClaim(n) ==
  /\ mgr[n].state = "None"
  /\ EndUpdate(n, InState(n, "WaitForClaim"), <<>>)
  /\ Accepted

EndClaimDelay(n) ==
  /\ mgr[n].state = "WaitForClaim"
  /\ EndUpdate(n, InState(n, "SendRequestForClaim"), <<>>)
  /\ Accepted

SendRequestForClaim(n) ==
  /\ mgr[n].state = "SendRequestForClaim"
  /\ \/ /\ EndUpdate(n, InState(n, "WaitForRequestContentionPeriod"), <<Request(Null, Global)>>)
        /\ Accepted
     \/ /\ EndUpdate(n, mgr[n], <<>>)
        /\ Refused

\* Variant: nobody contends
DecisionWithoutContention(m, n) ==
  LET free == m.preferred # Null /\ CfAt(m, m.preferred) = NoCf
  IN IF free THEN "SendPreferredAddressClaim"
     ELSE IF n \in Capable THEN "SendArbitraryAddressClaim" ELSE "UnableToClaim"
\* What to do about the preferred address
Decision(m, n) ==
  LET free == m.preferred # Null /\ CfAt(m, m.preferred) = NoCf
      capable == n \in Capable
  IN CASE free -> "SendPreferredAddressClaim"
       [] ~free /\ capable -> "SendArbitraryAddressClaim"
       [] ~free /\ ~capable /\ Wins(n, NameOf(m, CfAt(m, m.preferred))) -> "ContendForPreferredAddress"
       [] OTHER -> "UnableToClaim"

EndContention(n) ==
  /\ mgr[n].state = "WaitForRequestContentionPeriod"
  /\ EndUpdate(n, InState(n, Decision(mgr[n], n)), <<>>)
  /\ Accepted

\* Variant: the result of the send is ignored
ClaimPreferredAnyway(n) ==
  LET a == mgr[n].preferred
  IN /\ mgr[n].state \in {"SendPreferredAddressClaim", "ContendForPreferredAddress"}
     /\ \/ EndUpdate(n, Moved(mgr[n], n, a), <<Claim(n, a)>>) /\ Accepted
        \/ EndUpdate(n, Moved(mgr[n], n, a), <<>>) /\ Refused

\* Claims the preferred address, free or contended; starts again if refused.  A
\* commanded 255 fails an assertion where the build keeps them: then this is the
\* last step of the program
ClaimPreferred(n) ==
  LET a == mgr[n].preferred
  IN /\ mgr[n].state \in {"SendPreferredAddressClaim", "ContendForPreferredAddress"}
     /\ \/ /\ EndUpdate(n, Moved(mgr[n], n, a), <<Claim(n, a)>>)
           /\ Accepted
        \/ /\ EndUpdate(n, InState(n, "None"), <<>>)
           /\ Refused

\* The first free address; a full queue refuses the claims of all of them
ClaimArbitrary(n) ==
  LET free == {a \in Dynamic : mgr[n].table[a] = NoCf}
      a == Min(free)
      claimed == [Moved(mgr[n], n, a) EXCEPT !.preferred = IF @ = Null THEN a ELSE @]
  IN /\ mgr[n].state = "SendArbitraryAddressClaim"
     /\ \/ /\ free # {}
           /\ EndUpdate(n, claimed, <<Claim(n, a)>>)
           /\ Accepted
        \/ /\ free = {}
           /\ EndUpdate(n, InState(n, "UnableToClaim"), <<>>)
           /\ Accepted
        \/ /\ free # {}
           /\ EndUpdate(n, InState(n, "UnableToClaim"), <<>>)
           /\ Refused

ReclaimAddress(n) ==
  LET a == mgr[n].address[n]
  IN /\ mgr[n].state = "SendReclaimAddressOnRequest"
     /\ \/ /\ EndUpdate(n, Moved(mgr[n], n, a), <<Claim(n, a)>>)
           /\ Accepted
        \/ /\ EndUpdate(n, mgr[n], <<>>)
           /\ Refused

UpdateClaiming(n) ==
  \/ Rest(n) \/ StartClaim(n) \/ EndClaimDelay(n) \/ SendRequestForClaim(n)
  \/ EndContention(n) \/ ClaimPreferred(n) \/ ClaimArbitrary(n) \/ ReclaimAddress(n)

\* A node of another make sends a frame
ForeignSends(f) ==
  /\ foreign < MaxForeign
  /\ foreign' = foreign + 1
  /\ inbox' = [n \in Stack |-> Append(inbox[n], f)]
  /\ UNCHANGED <<mgr, turn, msgs, heard, missed, refused>>

Next ==
  \/ \E n \in Stack : \/ ReceiveFrame(n) \/ CreatePartner(n) \/ BeginUpdate(n)
                      \/ ProcessMessage(n) \/ UpdateClaiming(n)
  \/ \E f \in ForeignFrame : ForeignSends(f)

Spec == Init /\ [][Next]_vars

\* What the update thread does about its own claim
Advance(n) == UpdateClaiming(n) /\ Accepted /\ mgr'[n].state # mgr[n].state

\* The update thread runs at least every periodic interval, reads the frames
\* the driver has, its delays expire, and the transmit queue has room again
Fairness == \A n \in Stack :
  /\ WF_vars(BeginUpdate(n) \/ ProcessMessage(n) \/ UpdateClaiming(n))
  /\ SF_vars(ReceiveFrame(n))
  /\ SF_vars(Advance(n))

FairSpec == Spec /\ Fairness

-----------------------------------------------------------------------------
(* Properties *)

Manager == [state : State, preferred : Slot, table : [Slot -> Cf \cup {NoCf}],
            address : [Cf -> Slot], flagged : [Cf -> BOOLEAN], inactive : Seq(Cf),
            requested : BOOLEAN, partner : {"none", "new", "known"},
            bound : Node \cup {NoCf}]
Turn == {"frames", "messages"}

\* Type invariant: the table and the messages hold nothing but what the
\* managers and the bus put there
TypeOK ==
  /\ mgr \in [Stack -> Manager]
  /\ turn \in [Stack -> Turn]
  /\ inbox \in [Stack -> Seq(Frames)]
  /\ msgs \in [Stack -> Seq(Frames)]
  /\ heard \in [Stack -> SUBSET Node]
  /\ missed \in [Stack -> BOOLEAN]
  /\ foreign \in 0 .. MaxForeign
  /\ refused \in 0 .. MaxRefused

Held(n) == mgr[n].address[n]
Holds(n) == mgr[n].state = "AddressClaimingComplete" /\ Held(n) \in Address
Settled(n) == mgr[n].state \in {"AddressClaimingComplete", "UnableToClaim"}
Quiet == \A n \in Stack : Settled(n) /\ inbox[n] = <<>> /\ msgs[n] = <<>>

\* Once every claim has been read and answered, no two nodes of the stack hold
\* one address, whatever crossed on the way: the contention of
\* update_control_functions() and the reclaims settle it
QuietNodesDiffer ==
  Quiet => \A n, k \in Stack : n # k /\ Holds(n) /\ Holds(k) => Held(n) # Held(k)

\* Once the bus is quiet a node sits in no slot of a table but the one of the
\* address that network manager has for it: whatever crossed on the way, the
\* claims that move a node, evict it or bring it back from the inactive list, in
\* two phases each, leave none of its former slots behind, through which the
\* messages of whoever uses that address would be taken for its own
NoStaleSlot ==
  Quiet => \A n \in Stack, k \in Node, a \in Address :
             mgr[n].table[a] = k => mgr[n].address[k] = a

\* "Address claiming is complete and we have an address"
\* (can_internal_control_function.hpp:44): in particular one that no lower NAME
\* has claimed is not lost
CompleteHasAddress ==
  \A n \in Stack : mgr[n].state = "AddressClaimingComplete" => Held(n) \in Address

\* The lowest NAME on the bus never gives up, not even on the way to its claim,
\* whatever the table of its network manager says of the address it prefers
\* (can_internal_control_function.cpp:127-166)
LowestNameClaims ==
  \A n \in Stack \ Capable : (\A k \in Node : n <= k) => mgr[n].state # "UnableToClaim"

\* A partner is not left without a NAME while a control function that matches
\* it is known as an external one: the claim that creates a control function
\* and the application that creates the partner race each other.  Except when
\* several of the inactive ones matched as the partner was looked at: "Remove any
\* inactive CF that matches the partner's name" (can_network_manager.cpp:875)
\* removes one of them
PartnerBound ==
  \A n \in Stack : mgr[n].partner = "known" /\ mgr[n].bound = NoCf /\ ~missed[n] =>
    (InTable(mgr[n]) \cup Range(mgr[n].inactive)) \cap (Matching \ {n}) = {}

\* Every claim comes to its end: the bus gets quiet and stays so
ClaimsEnd == <>[]Quiet

\* prune_inactive_control_functions() "checks to see if any control function
\* didn't claim during a round of address claiming and removes it": one that did
\* claim since the last request stays
PrunedDidNotClaim ==
  [][\A n \in Stack : mgr[n].requested /\ ~mgr'[n].requested =>
       \A cf \in InTable(mgr[n]) \ (InTable(mgr'[n]) \cup {n}) :
         NameOf(mgr[n], cf) \notin heard[n]]_vars
=============================================================================
