--------------------------- MODULE MCAddressClaim ---------------------------
(* Small instances of AddressClaim for TLC *)
EXTENDS AddressClaim

\* Everybody prefers one address
SamePreferred == [n \in Stack |-> 1]

NoFrames == {}
\* Nodes of another make claim the addresses, cannot claim one, use one without
\* a claim, ask for claims, and command an address; some of what they send makes
\* no sense: a claim of 255, a commanded 254 or 255
OtherMakes == {Claim(k, a) : k \in Foreign, a \in Address}
              \cup {Claim(3, Null), Claim(3, Global), Other(1), Request(Null, Global), Request(Null, 1)}
              \cup {Command(Null, 2, a) : a \in {2, Null, Global}}
\* A node asks for claims and answers its own request
AskAndClaim == {Request(Null, Global), Claim(3, 1)}
\* The higher NAMEs claim the addresses
HigherClaims == {Claim(k, a) : k \in Foreign, a \in Address}
=============================================================================
