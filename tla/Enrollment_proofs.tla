------------------------- MODULE Enrollment_proofs -------------------------
(***************************************************************************)
(* What Enrollment promises, proved for any number of devices, tokens,     *)
(* handlers and connections: a claim token enrolls one device, the state   *)
(* is well typed, and no device is locked out by a rotation - the last as  *)
(* long as no read of the server fails and neither of two races is run.    *)
(***************************************************************************)
EXTENDS Enrollment, FiniteSetTheorems, TLAPS

\* What of the state the proof is about, and its shape.
TokensTyped ==
    /\ tokenState \in [Token -> {"unissued", "live", "spent", "expired"}]
    /\ DOMAIN tokenFor = Token
    /\ enrolled = [t \in Token |-> enrolled[t]]

\* The inductive invariant: a token not spent has enrolled nobody, a spent one
\* exactly one device, and that one it was minted for.
TokenInv ==
    /\ TokensTyped
    /\ \A t \in Token :
          IF tokenState[t] = "spent"
          THEN \E d : enrolled[t] = {d} /\ tokenFor[t] \in {Anyone, d}
          ELSE enrolled[t] = {}

\* The steps that touch no token.
LEMMA TokensUntouched ==
    ASSUME TokenInv, UNCHANGED tokenVars
    PROVE  TokenInv'
  BY Zenon DEF TokenInv, TokensTyped, tokenVars

LEMMA InitTokenInv == Init => TokenInv
  BY DEF Init, TokenInv, TokensTyped

LEMMA MintKeeps ==
    ASSUME TokenInv, NEW t \in Token, NEW d \in Device \cup {Anyone}, Mint(t, d)
    PROVE  TokenInv'
  <1>1. /\ tokenState' = [tokenState EXCEPT ![t] = "live"] /\ tokenState[t] = "unissued"
        /\ tokenFor' = [tokenFor EXCEPT ![t] = d] /\ enrolled' = enrolled
    BY DEF Mint
  <1> QED BY <1>1 DEF TokenInv, TokensTyped

LEMMA ExpireKeeps ==
    ASSUME TokenInv, NEW t \in Token, Expire(t)
    PROVE  TokenInv'
  <1>1. /\ tokenState' = [tokenState EXCEPT ![t] = "expired"] /\ tokenState[t] = "live"
        /\ tokenFor' = tokenFor /\ enrolled' = enrolled
    BY DEF Expire
  <1> QED BY <1>1 DEF TokenInv, TokensTyped

LEMMA ClaimCommitKeeps ==
    ASSUME TokenInv, NEW r \in Handler, ClaimCommit(r)
    PROVE  TokenInv'
  <1> DEFINE d == dev[r] t == tok[r]
  <1>1. CASE UNCHANGED <<tokenState, enrolled>>
    BY <1>1, TokensUntouched DEF ClaimCommit, tokenVars
  <1>2. CASE /\ tokenState[t] = "live" /\ tokenFor[t] \in {Anyone, d}
             /\ tokenState' = [tokenState EXCEPT ![t] = "spent"]
             /\ enrolled' = [enrolled EXCEPT ![t] = @ \cup {d}]
    <2>1. tokenFor' = tokenFor
      BY DEF ClaimCommit
    <2>2. TokensTyped'
      BY <1>2, <2>1 DEF TokenInv, TokensTyped
    <2>3. ASSUME NEW u \in Token
          PROVE  IF tokenState'[u] = "spent"
                 THEN \E e : enrolled'[u] = {e} /\ tokenFor'[u] \in {Anyone, e}
                 ELSE enrolled'[u] = {}
      <3>1. CASE u = t
        <4>1. enrolled[u] = {}
          BY <1>2, <3>1 DEF TokenInv
        <4>2. enrolled'[u] = {d} /\ tokenState'[u] = "spent"
          BY <1>2, <3>1, <4>1 DEF TokenInv, TokensTyped
        <4> QED BY <1>2, <2>1, <3>1, <4>2
      <3>2. CASE u # t
        BY <1>2, <2>1, <3>2 DEF TokenInv, TokensTyped
      <3> QED BY <3>1, <3>2
    <2> QED BY <2>2, <2>3 DEF TokenInv
  <1> QED BY <1>1, <1>2 DEF ClaimCommit, TokenValid

\* Every other step leaves the tokens as they are.
LEMMA OthersKeep ==
    ASSUME TokenInv, [Next]_vars,
           \A t \in Token : ~Expire(t) /\ \A d \in Device \cup {Anyone} : ~Mint(t, d),
           \A r \in Handler : ~ClaimCommit(r)
    PROVE  UNCHANGED tokenVars
  <1>1. CASE UNCHANGED vars
    BY <1>1 DEF vars
  <1>2. ASSUME NEW r \in Handler, Handle(r)
        PROVE  UNCHANGED tokenVars
    BY <1>2 DEF Handle, ClaimLookup, ClaimReply, RotateSet, RotateSend, RevokeKick, tokenVars
  <1>3. ASSUME NEW r \in Handler, NEW d \in Device, RotateLookup(r, d) \/ RevokeRow(r, d)
        PROVE  UNCHANGED tokenVars
    BY <1>3 DEF RotateLookup, RevokeRow, tokenVars
  <1>4. ASSUME NEW r \in Handler, NEW d \in Device, NEW t \in Token, ClaimToken(r, d, t)
        PROVE  UNCHANGED tokenVars
    BY <1>4 DEF ClaimToken, tokenVars
  <1>5. ASSUME NEW c \in Connection, Serve(c)
        PROVE  UNCHANGED tokenVars
    BY <1>5 DEF Serve, AuthRead, AuthCompare, AuthPromote, Admit, CloseDead, tokenVars
  <1>6. ASSUME NEW c \in Connection, NEW d \in Device, Connect(c, d)
        PROVE  UNCHANGED tokenVars
    BY <1>6 DEF Connect, tokenVars
  <1>7. ASSUME NEW d \in Device,
               GiveUpClaim(d) \/ KeepOld(d) \/ Adopt(d) \/ ClearOld(d) \/ Drop(d) \/ Reprovision(d)
        PROVE  UNCHANGED tokenVars
    BY <1>7 DEF GiveUpClaim, KeepOld, Adopt, ClearOld, Drop, Reprovision, tokenVars
  <1>8. CASE ServerRestart
    BY <1>8 DEF ServerRestart, tokenVars
  <1> QED BY <1>1, <1>2, <1>3, <1>4, <1>5, <1>6, <1>7, <1>8 DEF Next

LEMMA NextKeepsTokenInv == TokenInv /\ [Next]_vars => TokenInv'
  <1> SUFFICES ASSUME TokenInv, [Next]_vars
               PROVE  TokenInv'
    OBVIOUS
  <1>1. CASE \E t \in Token : Expire(t) \/ \E d \in Device \cup {Anyone} : Mint(t, d)
    BY <1>1, MintKeeps, ExpireKeeps
  <1>2. CASE \E r \in Handler : ClaimCommit(r)
    BY <1>2, ClaimCommitKeeps
  <1>3. CASE /\ \A t \in Token : ~Expire(t) /\ \A d \in Device \cup {Anyone} : ~Mint(t, d)
             /\ \A r \in Handler : ~ClaimCommit(r)
    BY <1>3, OthersKeep, TokensUntouched
  <1> QED BY <1>1, <1>2, <1>3

LEMMA TokenInvSuffices == TokenInv => TokensBuyOneEnrollment
  <1> SUFFICES ASSUME TokenInv, NEW t \in Token
               PROVE  /\ Cardinality(enrolled[t]) <= 1
                      /\ tokenState[t] = "spent" <=> enrolled[t] # {}
                      /\ \A d \in enrolled[t] : tokenFor[t] \in {Anyone, d}
    BY DEF TokensBuyOneEnrollment
  <1>1. CASE tokenState[t] = "spent"
    <2>1. PICK d : enrolled[t] = {d} /\ tokenFor[t] \in {Anyone, d}
      BY <1>1 DEF TokenInv
    <2>2. Cardinality(enrolled[t]) = 1
      BY <2>1, FS_Singleton
    <2> QED BY <1>1, <2>1, <2>2
  <1>2. CASE tokenState[t] # "spent"
    <2>1. enrolled[t] = {}
      BY <1>2 DEF TokenInv
    <2>2. Cardinality(enrolled[t]) = 0
      BY <2>1, FS_EmptySet
    <2> QED BY <1>2, <2>1, <2>2
  <1> QED BY <1>1, <1>2

\* A claim token enrolls one device, one it was minted for, and is spent exactly
\* when it has: whatever claims race, are repeated, time out or die half-way
\* (enroll.Service.Claim, EnrollRepository.Claim).
THEOREM TokensAreSound == Spec => []TokensBuyOneEnrollment
  <1>1. Init => TokenInv
    BY InitTokenInv
  <1>2. TokenInv /\ [Next]_vars => TokenInv'
    BY NextKeepsTokenInv
  <1>3. TokenInv => TokensBuyOneEnrollment
    BY TokenInvSuffices
  <1> QED BY <1>1, <1>2, <1>3, PTL DEF Spec

-----------------------------------------------------------------------------
(* The type invariant. *)

\* A handler knows its device, and has a password from when it has minted one; a
\* connection has a device and a password, and promotes the pending one it read.
PlacesInOrder ==
    /\ \A r \in Handler :
          /\ pc[r] # "idle" => dev[r] \in Device
          /\ pc[r] \in {"claimCommit", "claimReply", "rotateSet", "rotateSend"} => secret[r] # None
    /\ \A c \in Connection :
          /\ connPc[c] # "idle" => connDev[c] \in Device /\ password[c] # None
          /\ connPc[c] = "promote" => password[c] = snapPending[c]

TypeInv == TypeOK /\ PlacesInOrder

TokensOK == /\ tokenState \in [Token -> {"unissued", "live", "spent", "expired"}]
            /\ tokenFor \in [Token -> Device \cup {Anyone, Nobody}]
            /\ enrolled \in [Token -> SUBSET Device]
CredentialsOK == /\ hash \in [Device -> Secret \cup {None}]
                 /\ pending \in [Device -> Secret \cup {None}]
                 /\ \A d \in Device : pending[d] # None => hash[d] # None
HandlersOK == /\ minted \in 0..MaxSecrets
              /\ pc \in [Handler -> {"idle", "claimLookup", "claimCommit", "claimReply", "rotateSet",
                                     "rotateSend", "revokeKick"}]
              /\ dev \in [Handler -> Device \cup {Nobody}]
              /\ secret \in [Handler -> Secret \cup {None}]
              /\ \A r \in Handler :
                    /\ pc[r] # "idle" => dev[r] \in Device
                    /\ pc[r] \in {"claimCommit", "claimReply", "rotateSet", "rotateSend"} =>
                          secret[r] # None
ConnectionsOK == /\ connPc \in [Connection -> {"idle", "read", "compare", "promote", "admit", "live"}]
                 /\ connDev \in [Connection -> Device \cup {Nobody}]
                 /\ password \in [Connection -> Secret \cup {None}]
                 /\ snapHash \in [Connection -> Secret \cup {None}]
                 /\ snapPending \in [Connection -> Secret \cup {None}]
                 /\ \A c \in Connection :
                       /\ connPc[c] # "idle" => connDev[c] \in Device /\ password[c] # None
                       /\ connPc[c] = "promote" => password[c] = snapPending[c]
ClientsOK == /\ claiming \in [Device -> Handler \cup {Nobody}]
             /\ pass \in [Device -> Secret \cup {None}]
             /\ oldPass \in [Device -> Secret \cup {None}]
             /\ link \in [Device -> Connection \cup {Nobody}]
             /\ clientPc \in [Device -> {"run", "adopt", "fallBack"}]
             /\ adopting \in [Device -> Secret \cup {None}]
RestOK == /\ tok \in [Handler -> Token \cup {Nobody}]
          /\ box \in [Connection -> Secret \cup {None}]
          /\ revokes \in 0..MaxRevokes /\ faults \in 0..MaxFaults

\* The type invariant by what the steps change together.
LEMMA TypeParts ==
    TypeInv <=> /\ TokensOK /\ CredentialsOK /\ HandlersOK /\ ConnectionsOK /\ ClientsOK /\ RestOK
  BY DEF TypeInv, TypeOK, PlacesInOrder, TokensOK, CredentialsOK, HandlersOK, ConnectionsOK,
         ClientsOK, RestOK

LEMMA TypeStep == TypeInv /\ [Next]_vars => TypeInv'
  <1> SUFFICES ASSUME TypeInv, [Next]_vars
               PROVE  TypeInv'
    OBVIOUS
  <1>a. TokensOK /\ CredentialsOK /\ HandlersOK /\ ConnectionsOK /\ ClientsOK /\ RestOK
    BY TypeParts
  <1> DEFINE Goal == /\ TokensOK' /\ CredentialsOK' /\ HandlersOK' /\ ConnectionsOK' /\ ClientsOK'
                     /\ RestOK'
  <1> USE <1>a DEF tokenVars, credentialVars, handlerVars, connVars, clientVars, bounds
  <1>t. UNCHANGED tokenVars => TokensOK'
    BY DEF TokensOK
  <1>c. UNCHANGED <<hash, pending>> => CredentialsOK'
    BY DEF CredentialsOK
  <1>h. UNCHANGED <<minted, pc, dev, secret>> => HandlersOK'
    BY DEF HandlersOK
  <1>n. UNCHANGED <<connPc, connDev, password, snapHash, snapPending>> => ConnectionsOK'
    BY DEF ConnectionsOK
  <1>l. UNCHANGED clientVars => ClientsOK'
    BY DEF ClientsOK
  <1>r. UNCHANGED <<tok, box, revokes, faults>> => RestOK'
    BY DEF RestOK
  <1>f. UNCHANGED <<tok, box>> /\ Fault => RestOK'
    BY EnrollmentAssumption DEF RestOK, Fault
  <1>1. ASSUME NEW t \in Token, NEW d \in Device \cup {Anyone}, Mint(t, d) PROVE Goal
    BY <1>1, <1>c, <1>h, <1>n, <1>l, <1>r DEF Mint, TokensOK
  <1>2. ASSUME NEW t \in Token, Expire(t) PROVE Goal
    BY <1>2, <1>c, <1>h, <1>n, <1>l, <1>r DEF Expire, TokensOK
  <1>3. ASSUME NEW r \in Handler, NewSecret(r), NEW p \in {"claimCommit", "rotateSet"}, Goto(r, p),
               NEW d \in Device, dev' = [dev EXCEPT ![r] = d]
        PROVE  HandlersOK'
    <2>1. minted + 1 \in Secret /\ minted + 1 \in 0..MaxSecrets /\ minted + 1 # None
      BY <1>3, EnrollmentAssumption DEF NewSecret, HandlersOK, Secret, None
    <2> QED BY <1>3, <2>1 DEF NewSecret, Goto, HandlersOK
  <1>4. ASSUME NEW r \in Handler, NEW d \in Device, NEW t \in Token, ClaimToken(r, d, t) PROVE Goal
    <2>1. ClientsOK'
      BY <1>4 DEF ClaimToken, ClientsOK
    <2>2. HandlersOK' /\ RestOK'
      BY <1>4 DEF ClaimToken, Goto, HandlersOK, RestOK
    <2> QED BY <1>4, <1>t, <1>c, <1>n, <2>1, <2>2 DEF ClaimToken
  <1>5. ASSUME NEW r \in Handler, Refused(r), UNCHANGED <<dev, secret, minted>>,
               UNCHANGED <<oldPass, link, clientPc, adopting>>,
               pass' \in [Device -> Secret \cup {None}]
        PROVE  HandlersOK' /\ ClientsOK'
    <2>1. pc' = [pc EXCEPT ![r] = "idle"] /\ claiming' \in [Device -> Handler \cup {Nobody}]
      BY <1>5 DEF Refused, Goto, ClientsOK
    <2> QED BY <1>5, <2>1 DEF HandlersOK, ClientsOK
  <1>6. ASSUME NEW r \in Handler, ClaimLookup(r) PROVE Goal
    <2>1. CASE Refused(r) /\ UNCHANGED <<credentialVars, secret>>
      <3>1. pass' \in [Device -> Secret \cup {None}]
        BY <1>6 DEF ClaimLookup, ClientsOK
      <3> QED BY <1>5, <1>6, <1>t, <1>c, <1>n, <1>r, <2>1, <3>1 DEF ClaimLookup
    <2>2. CASE NewSecret(r) /\ Goto(r, "claimCommit") /\ UNCHANGED <<claiming, pending, hash>>
      <3>1. dev[r] \in Device /\ dev' = [dev EXCEPT ![r] = dev[r]]
        BY <1>6 DEF ClaimLookup, HandlersOK
      <3>2. HandlersOK'
        BY <1>3, <2>2, <3>1
      <3> QED BY <1>6, <1>t, <1>c, <1>n, <1>l, <1>r, <2>2, <3>2 DEF ClaimLookup
    <2> QED BY <1>6, <2>1, <2>2 DEF ClaimLookup
  <1>7. ASSUME NEW r \in Handler, ClaimCommit(r) PROVE Goal
    <2>1. CASE Refused(r) /\ UNCHANGED <<tokenState, hash, enrolled>>
      <3>1. pass' \in [Device -> Secret \cup {None}]
        BY <1>7 DEF ClaimCommit, ClientsOK
      <3> QED BY <1>5, <1>7, <1>t, <1>c, <1>n, <1>r, <2>1, <3>1 DEF ClaimCommit
    <2>2. CASE /\ tokenState' = [tokenState EXCEPT ![tok[r]] = "spent"]
               /\ hash' = [hash EXCEPT ![dev[r]] = secret[r]]
               /\ enrolled' = [enrolled EXCEPT ![tok[r]] = @ \cup {dev[r]}]
               /\ Goto(r, "claimReply") /\ UNCHANGED claiming
      <3>1. dev[r] \in Device /\ secret[r] \in Secret /\ secret[r] # None
        BY <1>7 DEF ClaimCommit, HandlersOK
      <3>2. TokensOK'
        BY <1>7, <2>2, <3>1 DEF ClaimCommit, TokensOK
      <3>3. CredentialsOK'
        BY <1>7, <2>2, <3>1 DEF ClaimCommit, CredentialsOK
      <3>4. HandlersOK'
        BY <1>7, <2>2, <3>1 DEF ClaimCommit, Goto, HandlersOK
      <3> QED BY <1>7, <1>n, <1>l, <1>r, <2>2, <3>2, <3>3, <3>4 DEF ClaimCommit
    <2> QED BY <1>7, <2>1, <2>2 DEF ClaimCommit
  <1>8. ASSUME NEW r \in Handler, ClaimReply(r) PROVE Goal
    <2>1. pass' \in [Device -> Secret \cup {None}]
      BY <1>8 DEF ClaimReply, ClientsOK, HandlersOK
    <2> QED BY <1>5, <1>8, <1>t, <1>c, <1>n, <1>r, <2>1 DEF ClaimReply
  <1>9. ASSUME NEW d \in Device, GiveUpClaim(d) PROVE Goal
    BY <1>9, <1>t, <1>c, <1>h, <1>n, <1>r DEF GiveUpClaim, ClientsOK
  <1>10. ASSUME NEW r \in Handler, NEW d \in Device, RotateLookup(r, d) PROVE Goal
    BY <1>3, <1>10, <1>t, <1>c, <1>n, <1>l, <1>r DEF RotateLookup
  <1>11. ASSUME NEW r \in Handler, RotateSet(r) PROVE Goal
    <2>1. /\ pc[r] = "rotateSet" /\ dev[r] \in Device /\ secret[r] \in Secret
          /\ UNCHANGED <<tokenVars, hash, minted, dev, tok, secret, connVars, clientVars, bounds>>
      BY <1>11 DEF RotateSet, HandlersOK
    <2>2. HandlersOK'
      BY <1>11, <2>1 DEF RotateSet, Goto, HandlersOK
    <2>3. CredentialsOK'
      BY <1>11, <2>1 DEF RotateSet, CanSetPending, CredentialsOK
    <2> QED BY <1>t, <1>n, <1>l, <1>r, <2>1, <2>2, <2>3
  <1>12. ASSUME NEW r \in Handler, RotateSend(r) PROVE Goal
    <2>1. HandlersOK' /\ RestOK'
      BY <1>12 DEF RotateSend, Goto, HandlersOK, RestOK
    <2> QED BY <1>12, <1>t, <1>c, <1>n, <1>l, <2>1 DEF RotateSend
  <1>13. ASSUME NEW r \in Handler, NEW d \in Device, RevokeRow(r, d) PROVE Goal
    <2>1. CredentialsOK'
      BY <1>13 DEF RevokeRow, CredentialsOK
    <2>2. HandlersOK'
      BY <1>13 DEF RevokeRow, Goto, HandlersOK
    <2>3. RestOK'
      BY <1>13, EnrollmentAssumption DEF RevokeRow, RestOK
    <2> QED BY <1>13, <1>t, <1>n, <1>l, <2>1, <2>2, <2>3 DEF RevokeRow
  <1>14. ASSUME NEW C, Close(C), UNCHANGED <<connDev, password, snapHash, snapPending, tok>>
         PROVE  ConnectionsOK' /\ box' \in [Connection -> Secret \cup {None}]
    BY <1>14 DEF Close, ConnectionsOK, RestOK
  <1>15. ASSUME NEW r \in Handler, RevokeKick(r) PROVE Goal
    <2>1. HandlersOK'
      BY <1>15 DEF RevokeKick, Goto, HandlersOK
    <2>2. ClientsOK'
      BY <1>15 DEF RevokeKick, ClientsOK
    <2>3. ConnectionsOK' /\ RestOK'
      BY <1>14, <1>15 DEF RevokeKick, RestOK
    <2> QED BY <1>15, <1>t, <1>c, <2>1, <2>2, <2>3 DEF RevokeKick
  <1>16. ASSUME NEW c \in Connection, NEW d \in Device, Connect(c, d) PROVE Goal
    <2>1. ConnectionsOK'
      BY <1>16 DEF Connect, GotoConn, ConnectionsOK, ClientsOK
    <2>2. ClientsOK'
      BY <1>16 DEF Connect, ClientsOK
    <2> QED BY <1>16, <1>t, <1>c, <1>h, <1>r, <2>1, <2>2 DEF Connect
  <1>17. ASSUME NEW c \in Connection, Refuse(c) PROVE ConnectionsOK' /\ ClientsOK' /\ UNCHANGED box
    <2>1. connPc' = [connPc EXCEPT ![c] = "idle"]
          /\ UNCHANGED <<connDev, password, snapHash, snapPending, box>>
      BY <1>17 DEF Refuse, GotoConn
    <2>2. ConnectionsOK'
      BY <2>1 DEF ConnectionsOK
    <2>3. link' \in [Device -> Connection \cup {Nobody}]
      BY <1>17 DEF Refuse, ClientsOK
    <2>4. oldPass[connDev[c]] # None /\ link[connDev[c]] = c =>
             pass' \in [Device -> Secret \cup {None}] /\ clientPc' \in [Device -> {"run", "adopt", "fallBack"}]
      <3>1. CASE connDev[c] \in Device
        BY <1>17, <3>1 DEF Refuse, ClientsOK
      <3>2. CASE connDev[c] \notin Device
        BY <1>17, <3>2 DEF Refuse, ClientsOK
      <3> QED BY <3>1, <3>2
    <2>5. ClientsOK'
      BY <1>17, <2>3, <2>4 DEF Refuse, ClientsOK
    <2> QED BY <2>1, <2>2, <2>5
  <1>18. ASSUME NEW c \in Connection, AuthRead(c) PROVE Goal
    <2>1. UNCHANGED <<tokenVars, credentialVars, handlerVars>>
      BY <1>18 DEF AuthRead
    <2>2. CASE Refuse(c) /\ (UNCHANGED bounds \/ Fault)
      BY <1>17, <1>t, <1>c, <1>h, <1>r, <1>f, <2>1, <2>2
    <2>3. CASE /\ snapHash' = [snapHash EXCEPT ![c] = hash[connDev[c]]]
               /\ snapPending' = [snapPending EXCEPT ![c] = pending[connDev[c]]]
               /\ GotoConn(c, "compare")
               /\ UNCHANGED <<connDev, password, box, clientVars, bounds>>
      <3>1. connDev[c] \in Device /\ password[c] # None
        BY <1>18 DEF AuthRead, ConnectionsOK
      <3>2. ConnectionsOK'
        BY <2>3, <3>1 DEF GotoConn, ConnectionsOK, CredentialsOK
      <3> QED BY <1>t, <1>c, <1>h, <1>l, <1>r, <2>1, <2>3, <3>2
    <2> QED BY <1>18, <2>2, <2>3 DEF AuthRead
  <1>19. ASSUME NEW c \in Connection, AuthCompare(c) PROVE Goal
    <2>1. UNCHANGED <<tokenVars, credentialVars, handlerVars, bounds>>
      BY <1>19 DEF AuthCompare
    <2>2. CASE Refuse(c)
      BY <1>17, <1>t, <1>c, <1>h, <1>r, <2>1, <2>2
    <2>3. ASSUME NEW p \in {"admit", "promote"}, GotoConn(c, p), p = "promote" => password[c] = snapPending[c],
                 UNCHANGED <<connDev, password, snapHash, snapPending, box, clientVars>>
          PROVE  Goal
      <3>1. connPc[c] # "idle"
        BY <1>19 DEF AuthCompare
      <3>2. ConnectionsOK'
        BY <2>3, <3>1 DEF GotoConn, ConnectionsOK
      <3> QED BY <1>t, <1>c, <1>h, <1>l, <1>r, <2>1, <2>3, <3>2
    <2> QED BY <1>19, <2>2, <2>3 DEF AuthCompare
  <1>20. ASSUME NEW c \in Connection, AuthPromote(c) PROVE Goal
    <2>1. UNCHANGED <<tokenVars, minted, handlerVars>> /\ connPc[c] = "promote"
      BY <1>20 DEF AuthPromote
    <2>2. CASE Fault /\ Refuse(c) /\ UNCHANGED <<hash, pending>>
      BY <1>17, <1>t, <1>c, <1>h, <1>f, <2>1, <2>2
    <2>3. CASE /\ UNCHANGED <<hash, pending>>
                  \/ /\ hash' = [hash EXCEPT ![connDev[c]] = pending[connDev[c]]]
                     /\ pending' = [pending EXCEPT ![connDev[c]] = None]
               /\ GotoConn(c, "admit")
               /\ UNCHANGED <<connDev, password, snapHash, snapPending, box, clientVars, bounds>>
      <3>1. connDev[c] \in Device
        BY <2>1 DEF ConnectionsOK
      <3>2. CredentialsOK'
        BY <2>3, <3>1 DEF CredentialsOK
      <3>3. ConnectionsOK'
        BY <2>1, <2>3 DEF GotoConn, ConnectionsOK
      <3> QED BY <1>t, <1>h, <1>l, <1>r, <2>1, <2>3, <3>2, <3>3
    <2> QED BY <1>20, <2>2, <2>3 DEF AuthPromote
  <1>21. ASSUME NEW c \in Connection, Admit(c) PROVE Goal
    <2>1. ConnectionsOK'
      BY <1>21 DEF Admit, ConnectionsOK
    <2>2. ClientsOK'
      BY <1>21 DEF Admit, ClientsOK
    <2>3. RestOK'
      BY <1>21 DEF Admit, RestOK
    <2> QED BY <1>21, <1>t, <1>c, <1>h, <2>1, <2>2, <2>3 DEF Admit
  <1>22. ASSUME NEW c \in Connection, CloseDead(c) PROVE Goal
    <2>1. ConnectionsOK' /\ RestOK'
      BY <1>14, <1>22 DEF CloseDead, RestOK
    <2> QED BY <1>22, <1>t, <1>c, <1>h, <1>l, <2>1 DEF CloseDead
  <1>23. ASSUME NEW d \in Device, KeepOld(d) PROVE Goal
    <2>1. link[d] \in Connection
      BY <1>23 DEF KeepOld, ClientsOK
    <2>2. ClientsOK' /\ RestOK'
      BY <1>23, <2>1 DEF KeepOld, ClientsOK, RestOK
    <2> QED BY <1>23, <1>t, <1>c, <1>h, <1>n, <2>2 DEF KeepOld
  <1>24. ASSUME NEW d \in Device, Adopt(d) \/ ClearOld(d) \/ Drop(d) \/ Reprovision(d) PROVE Goal
    <2>1. ClientsOK'
      BY <1>24 DEF Adopt, ClearOld, Drop, Reprovision, ClientsOK
    <2> QED BY <1>24, <1>t, <1>c, <1>h, <1>n, <1>r, <2>1 DEF Adopt, ClearOld, Drop, Reprovision
  <1>25. ASSUME ServerRestart PROVE Goal
    <2>1. HandlersOK' /\ ClientsOK'
      BY <1>25 DEF ServerRestart, HandlersOK, ClientsOK
    <2>2. ConnectionsOK' /\ RestOK'
      BY <1>14, <1>25, EnrollmentAssumption DEF ServerRestart, RestOK, Fault
    <2> QED BY <1>25, <1>t, <1>c, <2>1, <2>2 DEF ServerRestart
  <1>26. ASSUME UNCHANGED vars PROVE Goal
    BY <1>26, <1>t, <1>c, <1>h, <1>n, <1>l, <1>r DEF vars
  <1>27. Goal
    BY <1>1, <1>2, <1>4, <1>6, <1>7, <1>8, <1>9, <1>10, <1>11, <1>12, <1>13, <1>15, <1>16, <1>18,
       <1>19, <1>20, <1>21, <1>22, <1>23, <1>24, <1>25, <1>26 DEF Next, Handle, Serve
  <1> QED
    BY ONLY <1>27 DEF TypeInv, TypeOK, PlacesInOrder, TokensOK, CredentialsOK, HandlersOK,
                      ConnectionsOK, ClientsOK, RestOK

LEMMA InitTypeInv == Init => TypeInv
  BY EnrollmentAssumption DEF Init, TypeInv, TypeOK, PlacesInOrder, None

\* Every reachable state of tokens, credentials, connections and clients is well
\* typed; in particular there is no pending password without a current one.
THEOREM EnrollmentTypeCorrect == Spec => []TypeOK
  <1>1. TypeInv => TypeOK
    BY DEF TypeInv
  <1> QED BY InitTypeInv, TypeStep, <1>1, PTL DEF Spec

-----------------------------------------------------------------------------
(* Nobody is locked out. Two races break the promise, and the theorems      *)
(* below assume each away by what it would take: a connection that promotes *)
(* another pending password than the one it compared (run enroll_promote),  *)
(* and a claim its client has given up that commits after the device was    *)
(* claimed again and revoked.                                               *)

PromotesWhatItRead ==
    \A c \in Connection :
        connPc[c] = "promote" /\ connPc'[c] = "admit" /\ pending[connDev[c]] # None =>
            pending[connDev[c]] = snapPending[c]

\* A claim goes through only while its device has no password and none on its way.
CommitsForTheUnclaimed ==
    \A r \in Handler :
        pc[r] = "claimCommit" /\ pc'[r] = "claimReply" =>
            /\ pass[dev[r]] = None
            /\ \A q \in Handler : claiming[dev[r]] = q => pc[q] # "claimReply"

InUse(x) ==
    \/ \E d \in Device : x \in {hash[d], pending[d], pass[d], oldPass[d], adopting[d]}
    \/ \E c \in Connection : x \in {password[c], box[c]}

\* A password is minted once, and nobody has the one a rotation is about to store.
SecretsAreFresh ==
    /\ \A x \in Secret : InUse(x) => x <= minted
    /\ \A r \in Handler :
          /\ secret[r] <= minted
          /\ pc[r] = "rotateSet" => ~InUse(secret[r])
          /\ \A q \in Handler : secret[q] = secret[r] /\ secret[r] # None => q = r
    /\ \A d \in Device : pending[d] # None => pending[d] # hash[d]

\* A client without a password has nothing; what it adopts is in its hand.
ClientsAtRest ==
    \A d \in Device :
        /\ pass[d] = None => /\ link[d] = Nobody /\ oldPass[d] = None /\ adopting[d] = None
                             /\ clientPc[d] = "run"
        /\ clientPc[d] = "adopt" <=> adopting[d] # None
        /\ clientPc[d] = "fallBack" => link[d] = Nobody

\* The connection a client uses is open, its own, and was opened with its password.
LinksAreTheirs ==
    \A d \in Device : \A c \in Connection :
        link[d] = c => /\ connDev[c] = d /\ connPc[c] # "idle" /\ password[c] = pass[d]
                       /\ connPc[c] # "live" => clientPc[d] = "run"

\* The claim a client waits for is its own and still to be answered.
ClaimsAreTheirs ==
    \A d \in Device : \A r \in Handler :
        claiming[d] = r => /\ pass[d] = None /\ dev[r] = d
                           /\ pc[r] \in {"claimLookup", "claimCommit", "claimReply"}

\* The client keeps the current password; it gives up the kept one only after the
\* other was accepted, and the password it uses only for the one it kept.
CurrentIsKept(d) ==
    /\ pass[d] # None => hash[d] \in {pass[d], oldPass[d]}
    /\ clientPc[d] = "adopt" => pass[d] = hash[d] /\ oldPass[d] = hash[d]
    /\ clientPc[d] = "fallBack" => pass[d] = hash[d]
    /\ \A c \in Connection : link[d] = c =>
          /\ connPc[c] \in {"admit", "live"} /\ clientPc[d] = "run" => pass[d] = hash[d]
          /\ connPc[c] = "compare" /\ password[c] = hash[d] =>
                password[c] \in {snapHash[c], snapPending[c]}
          /\ connPc[c] = "compare" /\ password[c] = snapHash[c] => password[c] = hash[d]
          /\ connPc[c] = "promote" \/ (connPc[c] = "compare" /\ password[c] = snapPending[c]) =>
                password[c] \in {hash[d], pending[d]}
    /\ \A r \in Handler : claiming[d] = r /\ pc[r] = "claimReply" => hash[d] = secret[r]

\* The device has no password, and none is on its way.
WithoutPassword(d) ==
    /\ pass[d] = None
    /\ \A r \in Handler : claiming[d] = r => pc[r] # "claimReply"

\* Who offers the pending password has it from the device, which still uses it, or
\* was set up anew since.
PendingIsKnown(d) ==
    \A c \in Connection : connPc[c] # "idle" /\ connDev[c] = d /\ password[c] = pending[d] =>
        /\ pass[d] = pending[d] \/ WithoutPassword(d)
        /\ connPc[c] = "compare" => snapPending[c] = pending[d]

RotationOf(d) == /\ hash[d] # None => CurrentIsKept(d)
                 /\ pending[d] # None => PendingIsKnown(d)

RotationInv == faults = 0 => \A d \in Device : RotationOf(d)

\* Before any revocation a device without credentials has not heard of any.
UnclaimedHaveNone ==
    revokes = 0 => \A d \in Device : hash[d] = None =>
        /\ pass[d] = None
        /\ \A q \in Handler : claiming[d] = q => pc[q] # "claimReply"

\* The passwords known after a step were known before, or a handler has stored or
\* sent the one it minted.
LEMMA UseStep ==
    ASSUME TypeInv, [Next]_vars, NEW x \in Secret, InUse(x)'
    PROVE  InUse(x) \/ \E r \in Handler : x = secret[r] /\ pc'[r] # "rotateSet"
  <1> DEFINE Known(y) == \/ y = None \/ InUse(y)
                         \/ \E r \in Handler : y = secret[r] /\ pc'[r] # "rotateSet"
             Of(f) == \A d \in Device : Known(f[d])
             OfConn(f) == \A c \in Connection : Known(f[c])
             Goal == /\ Of(hash') /\ Of(pending') /\ Of(pass') /\ Of(oldPass') /\ Of(adopting')
                     /\ OfConn(password') /\ OfConn(box')
  <1>k. /\ Of(hash) /\ Of(pending) /\ Of(pass) /\ Of(oldPass) /\ Of(adopting)
        /\ OfConn(password) /\ OfConn(box) /\ Known(None)
    BY DEF InUse
  <1>s. ASSUME NEW r \in Handler, pc'[r] # "rotateSet" PROVE Known(secret[r])
    BY <1>s
  <1>t. TypeOK
    BY DEF TypeInv
  <1>x. x # None
    BY EnrollmentAssumption DEF Secret, None
  <1> HIDE DEF Known
  <1>u. UNCHANGED <<hash, pending, pass, oldPass, adopting, password, box>> => Goal
    BY <1>k
  <1>1. ASSUME NEW t \in Token, Expire(t) \/ \E d \in Device \cup {Anyone} : Mint(t, d) PROVE Goal
    BY <1>1, <1>u DEF Expire, Mint, credentialVars, clientVars, connVars
  <1>2. ASSUME NEW r \in Handler, NEW d \in Device,
               RotateLookup(r, d) \/ \E t \in Token : ClaimToken(r, d, t)
        PROVE  Goal
    BY <1>2, <1>u DEF RotateLookup, ClaimToken, credentialVars, clientVars, connVars
  <1>3. ASSUME NEW r \in Handler, ClaimLookup(r) PROVE Goal
    BY <1>3, <1>u DEF ClaimLookup, Refused, credentialVars, clientVars, connVars
  <1>4. ASSUME NEW r \in Handler, ClaimCommit(r) PROVE Goal
    <2>1. /\ hash' = [hash EXCEPT ![dev[r]] = secret[r]] /\ pc'[r] # "rotateSet"
          \/ hash' = hash
      BY <1>4, <1>t DEF ClaimCommit, Goto, TypeOK
    <2>2. UNCHANGED <<pending, pass, oldPass, adopting, password, box>>
      BY <1>4 DEF ClaimCommit, connVars
    <2>3. Of(hash')
      BY <1>k, <1>s, <1>t, <2>1 DEF TypeOK
    <2> QED BY <1>k, <2>2, <2>3
  <1>5. ASSUME NEW r \in Handler, ClaimReply(r) PROVE Goal
    <2>1. /\ pass' = [d \in Device |-> IF claiming[d] = r THEN secret[r] ELSE pass[d]]
          /\ pc'[r] # "rotateSet"
          /\ UNCHANGED <<hash, pending, oldPass, adopting, password, box>>
      BY <1>5, <1>t DEF ClaimReply, Refused, Goto, credentialVars, connVars, TypeOK
    <2>2. Of(pass')
      BY <1>k, <1>s, <2>1
    <2> QED BY <1>k, <2>1, <2>2
  <1>6. ASSUME NEW r \in Handler, RotateSet(r) PROVE Goal
    <2>1. /\ pending' = [pending EXCEPT ![dev[r]] = secret[r]] \/ pending' = pending
          /\ pc'[r] # "rotateSet"
          /\ UNCHANGED <<hash, pass, oldPass, adopting, password, box>>
      BY <1>6, <1>t DEF RotateSet, Goto, clientVars, connVars, TypeOK
    <2>2. Of(pending')
      BY <1>k, <1>s, <1>t, <2>1 DEF TypeOK
    <2> QED BY <1>k, <2>1, <2>2
  <1>7. ASSUME NEW r \in Handler, RotateSend(r) PROVE Goal
    <2>1. /\ box' = [c \in Connection |-> IF c \in Live(dev[r]) THEN secret[r] ELSE box[c]]
          /\ pc'[r] # "rotateSet"
          /\ UNCHANGED <<hash, pending, pass, oldPass, adopting, password>>
      BY <1>7, <1>t DEF RotateSend, Goto, clientVars, credentialVars, TypeOK
    <2>2. OfConn(box')
      BY <1>k, <1>s, <2>1
    <2> QED BY <1>k, <2>1, <2>2
  <1>8. ASSUME NEW r \in Handler, NEW d \in Device, RevokeRow(r, d) PROVE Goal
    <2>1. /\ hash' = [hash EXCEPT ![d] = None] /\ pending' = [pending EXCEPT ![d] = None]
          /\ UNCHANGED <<pass, oldPass, adopting, password, box>>
      BY <1>8 DEF RevokeRow, clientVars, connVars
    <2>2. Of(hash') /\ Of(pending')
      BY <1>k, <1>t, <2>1 DEF TypeOK
    <2> QED BY <1>k, <2>1, <2>2
  <1>9. ASSUME NEW C, Close(C) PROVE OfConn(box')
    BY <1>9, <1>k DEF Close
  <1>10. ASSUME NEW r \in Handler, RevokeKick(r) PROVE Goal
    BY <1>9, <1>10, <1>k DEF RevokeKick, credentialVars
  <1>11. ASSUME NEW c \in Connection, NEW d \in Device, Connect(c, d) PROVE Goal
    <2>1. /\ password' = [password EXCEPT ![c] = pass[d]]
          /\ UNCHANGED <<hash, pending, pass, oldPass, adopting, box>>
      BY <1>11 DEF Connect, credentialVars
    <2>2. OfConn(password')
      BY <1>k, <1>t, <2>1 DEF TypeOK
    <2> QED BY <1>k, <2>1, <2>2
  <1>12. ASSUME NEW c \in Connection, Refuse(c) PROVE
               Of(pass') /\ UNCHANGED <<password, box, oldPass, adopting>>
    <2>1. /\ pass' = [pass EXCEPT ![connDev[c]] = oldPass[connDev[c]]] \/ pass' = pass
          /\ UNCHANGED <<password, box, oldPass, adopting>>
      BY <1>12 DEF Refuse
    <2>2. Of(pass')
      BY <1>k, <1>t, <2>1 DEF TypeOK
    <2> QED BY <2>1, <2>2
  <1>13. ASSUME NEW c \in Connection, AuthRead(c) \/ AuthCompare(c) PROVE Goal
    <2>1. CASE Refuse(c)
      BY <1>12, <1>13, <1>k, <2>1 DEF AuthRead, AuthCompare, credentialVars
    <2>2. CASE ~Refuse(c)
      BY <1>13, <1>u, <2>2 DEF AuthRead, AuthCompare, credentialVars, clientVars
    <2> QED BY <2>1, <2>2
  <1>14. ASSUME NEW c \in Connection, AuthPromote(c) PROVE Goal
    <2>1. CASE Refuse(c) /\ UNCHANGED <<hash, pending>>
      BY <1>12, <1>14, <1>k, <2>1
    <2>2. CASE /\ hash' = [hash EXCEPT ![connDev[c]] = pending[connDev[c]]]
               /\ pending' = [pending EXCEPT ![connDev[c]] = None]
               /\ UNCHANGED <<password, box, clientVars>>
      <3>1. Of(hash') /\ Of(pending')
        BY <1>k, <1>t, <2>2 DEF TypeOK
      <3> QED BY <1>k, <2>2, <3>1 DEF clientVars
    <2>3. CASE UNCHANGED <<hash, pending, password, box, clientVars>>
      BY <1>u, <2>3 DEF clientVars
    <2> QED BY <1>14, <2>1, <2>2, <2>3 DEF AuthPromote
  <1>15. ASSUME NEW c \in Connection, Admit(c) PROVE Goal
    <2>1. /\ box' = [b \in Connection |-> IF b \in Live(connDev[c]) THEN None ELSE box[b]]
          /\ oldPass' = [oldPass EXCEPT ![connDev[c]] = None] \/ oldPass' = oldPass
          /\ UNCHANGED <<hash, pending, pass, adopting, password>>
      BY <1>15 DEF Admit, credentialVars
    <2>2. OfConn(box') /\ Of(oldPass')
      BY <1>k, <1>t, <2>1 DEF TypeOK
    <2> QED BY <1>k, <2>1, <2>2
  <1>16. ASSUME NEW c \in Connection, CloseDead(c) PROVE Goal
    BY <1>9, <1>16, <1>k DEF CloseDead, credentialVars, clientVars
  <1>17. ASSUME NEW d \in Device, KeepOld(d) PROVE Goal
    <2>1. link[d] \in Connection
      BY <1>t, <1>17 DEF KeepOld, TypeOK
    <2>2. /\ oldPass' = [oldPass EXCEPT ![d] = pass[d]]
          /\ adopting' = [adopting EXCEPT ![d] = box[link[d]]]
          /\ box' = [box EXCEPT ![link[d]] = None]
          /\ UNCHANGED <<hash, pending, pass, password>>
      BY <1>17 DEF KeepOld, credentialVars
    <2>3. OfConn(box')
      BY <1>k, <1>t, <2>2 DEF TypeOK
    <2>4. Of(oldPass') /\ Of(adopting')
      BY <1>k, <1>t, <2>1, <2>2 DEF TypeOK
    <2> QED BY <1>k, <2>2, <2>3, <2>4
  <1>18. ASSUME NEW d \in Device, Adopt(d) \/ ClearOld(d) \/ Drop(d) \/ Reprovision(d) PROVE Goal
    <2>1. /\ \/ pass' = [pass EXCEPT ![d] = adopting[d]]
             \/ pass' = [pass EXCEPT ![d] = None]
             \/ pass' = pass
          /\ oldPass' = [oldPass EXCEPT ![d] = None] \/ oldPass' = oldPass
          /\ adopting' = [adopting EXCEPT ![d] = None] \/ adopting' = adopting
          /\ UNCHANGED <<hash, pending, password, box>>
      BY <1>18 DEF Adopt, ClearOld, Drop, Reprovision, credentialVars, connVars
    <2>2. Of(pass')
      BY <1>k, <1>t, <2>1 DEF TypeOK
    <2>3. Of(oldPass') /\ Of(adopting')
      BY <1>k, <1>t, <2>1 DEF TypeOK
    <2> QED BY <1>k, <2>1, <2>2, <2>3
  <1>19. ASSUME NEW d \in Device, GiveUpClaim(d) PROVE Goal
    BY <1>19, <1>u DEF GiveUpClaim, credentialVars, connVars
  <1>20. ASSUME ServerRestart PROVE Goal
    BY <1>9, <1>20, <1>k DEF ServerRestart, credentialVars
  <1>21. ASSUME UNCHANGED vars PROVE Goal
    BY <1>21, <1>u DEF vars, credentialVars, connVars, clientVars
  <1>22. Goal
    BY <1>1, <1>2, <1>3, <1>4, <1>5, <1>6, <1>7, <1>8, <1>10, <1>11, <1>13, <1>14, <1>15, <1>16,
       <1>17, <1>18, <1>19, <1>20, <1>21 DEF Next, Handle, Serve
  <1>23. Known(x)
    BY <1>22 DEF InUse
  <1> QED BY <1>x, <1>23 DEF Known

\* The steps that change the credentials the server holds.
LEMMA CredentialSteps ==
    ASSUME [Next]_vars
    PROVE  \/ UNCHANGED <<hash, pending>>
           \/ \E r \in Handler : \/ ClaimCommit(r) \/ RotateSet(r)
                                 \/ \E d \in Device : RevokeRow(r, d)
           \/ \E c \in Connection : AuthPromote(c)
  <1> USE DEF credentialVars
  <1>1. ASSUME NEW t \in Token, Expire(t) \/ \E d \in Device \cup {Anyone} : Mint(t, d)
        PROVE  UNCHANGED <<hash, pending>>
    BY <1>1 DEF Expire, Mint
  <1>2. ASSUME NEW r \in Handler, NEW d \in Device,
               RotateLookup(r, d) \/ \E t \in Token : ClaimToken(r, d, t)
        PROVE  UNCHANGED <<hash, pending>>
    BY <1>2 DEF RotateLookup, ClaimToken
  <1>3. ASSUME NEW r \in Handler, ClaimLookup(r) \/ ClaimReply(r) \/ RotateSend(r) \/ RevokeKick(r)
        PROVE  UNCHANGED <<hash, pending>>
    BY <1>3 DEF ClaimLookup, ClaimReply, RotateSend, RevokeKick
  <1>4. ASSUME NEW c \in Connection,
               \/ AuthRead(c) \/ AuthCompare(c) \/ Admit(c) \/ CloseDead(c)
               \/ \E d \in Device : Connect(c, d)
        PROVE  UNCHANGED <<hash, pending>>
    BY <1>4 DEF AuthRead, AuthCompare, Admit, CloseDead, Connect
  <1>5. ASSUME NEW d \in Device, \/ GiveUpClaim(d) \/ KeepOld(d) \/ Adopt(d) \/ ClearOld(d)
                                 \/ Drop(d) \/ Reprovision(d)
        PROVE  UNCHANGED <<hash, pending>>
    BY <1>5 DEF GiveUpClaim, KeepOld, Adopt, ClearOld, Drop, Reprovision
  <1>6. ASSUME ServerRestart \/ UNCHANGED vars PROVE UNCHANGED <<hash, pending>>
    BY <1>6 DEF ServerRestart, vars
  <1> QED BY <1>1, <1>2, <1>3, <1>4, <1>5, <1>6 DEF Next, Handle, Serve

LEMMA FreshStep ==
    ASSUME TypeInv, SecretsAreFresh, [Next]_vars
    PROVE  SecretsAreFresh'
  <1>t. TypeOK
    BY DEF TypeInv
  <1>m. minted \in Int /\ \A x \in Secret : x \in Int
    BY <1>t, EnrollmentAssumption DEF TypeOK, Secret
  <1> DEFINE Held(x) == InUse(x)
             Mints(r) == /\ minted' = minted + 1 /\ minted + 1 \in Secret
                         /\ secret' = [secret EXCEPT ![r] = minted + 1]
                         /\ \A x \in Secret : Held(x)' => Held(x)
                         /\ UNCHANGED <<hash, pending>>
                         /\ \A q \in Handler : q # r => pc'[q] = pc[q]
             Plain == /\ UNCHANGED <<minted, secret>>
                      /\ \A q \in Handler : pc'[q] = "rotateSet" => pc[q] = "rotateSet"
  <1>0. ASSUME NEW r \in Handler, NewSecret(r), NEW p, Goto(r, p),
               UNCHANGED <<hash, pending, pass, oldPass, adopting, password, box>>
        PROVE  \E q \in Handler : Mints(q)
    <2>1. minted + 1 \in Secret
      BY <1>0, <1>t, EnrollmentAssumption DEF NewSecret, TypeOK, Secret
    <2>2. \A x \in Secret : Held(x)' => Held(x)
      BY <1>0 DEF InUse
    <2>3. \A q \in Handler : q # r => pc'[q] = pc[q]
      BY <1>0, <1>t DEF Goto, TypeOK
    <2> QED BY <1>0, <2>1, <2>2, <2>3 DEF NewSecret
  <1> HIDE DEF Held
  <1>1. Plain \/ \E r \in Handler : Mints(r)
    <2> USE DEF tokenVars, credentialVars, handlerVars, connVars, clientVars
    <2>1. ASSUME NEW t \in Token, Expire(t) \/ \E d \in Device \cup {Anyone} : Mint(t, d)
          PROVE  Plain
      BY <2>1 DEF Expire, Mint
    <2>2. ASSUME NEW r \in Handler, NEW d \in Device,
                 RevokeRow(r, d) \/ \E t \in Token : ClaimToken(r, d, t)
          PROVE  Plain
      BY <2>2, <1>t DEF RevokeRow, ClaimToken, Goto, TypeOK
    <2>3. ASSUME NEW r \in Handler, NEW d \in Device, RotateLookup(r, d)
          PROVE  \E q \in Handler : Mints(q)
      BY <2>3, <1>0 DEF RotateLookup
    <2>4. ASSUME NEW r \in Handler, ClaimLookup(r)
          PROVE  Plain \/ \E q \in Handler : Mints(q)
      <3>1. CASE NewSecret(r) /\ Goto(r, "claimCommit") /\ UNCHANGED <<pending, hash>>
        BY <2>4, <3>1, <1>0 DEF ClaimLookup
      <3>2. CASE Refused(r) /\ UNCHANGED <<credentialVars, secret>>
        BY <3>2, <1>t DEF Refused, Goto, TypeOK
      <3> QED BY <2>4, <3>1, <3>2 DEF ClaimLookup
    <2>5. ASSUME NEW r \in Handler, ClaimCommit(r) \/ ClaimReply(r)
          PROVE  Plain
      BY <2>5, <1>t DEF ClaimCommit, ClaimReply, Refused, Goto, TypeOK
    <2>6. ASSUME NEW r \in Handler, RotateSet(r) \/ RotateSend(r) \/ RevokeKick(r)
          PROVE  Plain
      BY <2>6, <1>t DEF RotateSet, RotateSend, RevokeKick, Goto, TypeOK
    <2>7. ASSUME NEW c \in Connection, Serve(c) \/ \E d \in Device : Connect(c, d)
          PROVE  Plain
      BY <2>7 DEF Serve, AuthRead, AuthCompare, AuthPromote, Admit, CloseDead, Connect
    <2>8. ASSUME NEW d \in Device, \/ GiveUpClaim(d) \/ KeepOld(d) \/ Adopt(d) \/ ClearOld(d)
                                   \/ Drop(d) \/ Reprovision(d)
          PROVE  Plain
      BY <2>8 DEF GiveUpClaim, KeepOld, Adopt, ClearOld, Drop, Reprovision
    <2>9. ASSUME ServerRestart PROVE Plain
      BY <2>9 DEF ServerRestart
    <2>10. ASSUME UNCHANGED vars PROVE Plain
      BY <2>10 DEF vars
    <2> QED BY <2>1, <2>2, <2>3, <2>4, <2>5, <2>6, <2>7, <2>8, <2>9, <2>10 DEF Next, Handle
  <1>2. \A x \in Secret :
           Held(x)' => Held(x) \/ \E r \in Handler : x = secret[r] /\ pc'[r] # "rotateSet"
    BY UseStep DEF Held
  <1>f. /\ \A x \in Secret : Held(x) => x <= minted
        /\ \A r \in Handler : secret[r] <= minted /\ (pc[r] = "rotateSet" => ~Held(secret[r]))
        /\ \A r, q \in Handler : secret[q] = secret[r] /\ secret[r] # None => q = r
    BY DEF SecretsAreFresh, Held
  <1>s. \A r \in Handler : /\ pc[r] = "rotateSet" => secret[r] # None
                           /\ secret[r] \in Secret \/ secret[r] = None
                           /\ secret[r] \in Int
    BY <1>t, EnrollmentAssumption DEF TypeInv, PlacesInOrder, TypeOK, Secret, None
  <1> DEFINE Fresh == /\ \A x \in Secret : Held(x)' => x <= minted'
                      /\ \A r \in Handler : secret'[r] <= minted'
                      /\ \A r \in Handler : \A x \in Secret :
                            pc'[r] = "rotateSet" /\ secret'[r] = x => ~(Held(x)')
                      /\ \A r, q \in Handler : secret'[q] = secret'[r] /\ secret'[r] # None => q = r
  <1>3. ASSUME Plain PROVE Fresh
    <2>1. \A x \in Secret : Held(x)' => x <= minted'
      BY <1>2, <1>3, <1>f
    <2>2. ASSUME NEW r \in Handler, NEW x \in Secret, pc'[r] = "rotateSet", secret'[r] = x, Held(x)'
          PROVE  FALSE
      <3>1. pc[r] = "rotateSet" /\ x = secret[r]
        BY <1>3, <2>2
      <3>2. ~Held(x)
        BY <1>f, <3>1
      <3>3. PICK q \in Handler : x = secret[q] /\ pc'[q] # "rotateSet"
        BY <1>2, <2>2, <3>2
      <3> QED BY <1>f, <1>s, <2>2, <3>1, <3>3
    <2>3. \A r, q \in Handler : secret'[q] = secret'[r] /\ secret'[r] # None => q = r
      BY <1>3, <1>f
    <2> QED BY <1>3, <1>f, <2>1, <2>2, <2>3
  <1>4. ASSUME NEW r \in Handler, Mints(r) PROVE Fresh
    <2>1. \A q \in Handler : secret'[q] = IF q = r THEN minted + 1 ELSE secret[q]
      BY <1>4, <1>t DEF TypeOK
    <2>2. \A x \in Secret : Held(x)' => x <= minted
      BY <1>4, <1>f
    <2>3. \A x \in Secret : Held(x)' => x <= minted'
      BY <1>4, <1>m, <2>2
    <2>4. \A q \in Handler : secret'[q] <= minted'
      BY <1>4, <1>m, <1>f, <1>s, <2>1
    <2>5. ASSUME NEW q \in Handler, NEW x \in Secret, pc'[q] = "rotateSet", secret'[q] = x, Held(x)'
          PROVE  FALSE
      <3>1. CASE q = r
        BY <1>m, <2>1, <2>2, <2>5, <3>1
      <3>2. CASE q # r
        BY <1>4, <1>f, <2>1, <2>5, <3>2
      <3> QED BY <3>1, <3>2
    <2>6. ASSUME NEW p \in Handler, NEW q \in Handler, secret'[q] = secret'[p], secret'[p] # None
          PROVE  q = p
      <3>1. secret[p] # minted + 1 /\ secret[q] # minted + 1
        BY <1>f, <1>m, <1>s
      <3> QED BY <1>f, <2>1, <2>6, <3>1
    <2> QED BY <2>3, <2>4, <2>5, <2>6
  <1>5. ASSUME NEW d \in Device, pending'[d] # None PROVE pending'[d] # hash'[d]
    <2>0. pending[d] # None => hash[d] # None /\ pending[d] # hash[d]
      BY <1>t DEF TypeOK, SecretsAreFresh
    <2>1. CASE pending'[d] = pending[d] /\ hash'[d] = hash[d]
      BY <1>5, <2>0, <2>1
    <2>2. ASSUME NEW r \in Handler, ClaimCommit(r) PROVE pending'[d] # hash'[d]
      <3>1. /\ pending' = pending
            /\ hash' = hash \/ (hash[dev[r]] = None /\ hash' = [hash EXCEPT ![dev[r]] = secret[r]])
        BY <2>2 DEF ClaimCommit
      <3> QED BY <1>5, <1>t, <2>0, <3>1 DEF TypeOK
    <2>3. ASSUME NEW r \in Handler, RotateSet(r) PROVE pending'[d] # hash'[d]
      <3>1. ~InUse(secret[r])
        BY <2>3 DEF RotateSet, SecretsAreFresh
      <3>2. secret[r] # hash[d]
        BY <3>1 DEF InUse
      <3> QED BY <1>5, <1>t, <2>0, <2>3, <3>2 DEF RotateSet, TypeOK
    <2>4. ASSUME NEW r \in Handler, NEW e \in Device, RevokeRow(r, e) PROVE pending'[d] # hash'[d]
      BY <1>5, <1>t, <2>0, <2>4 DEF RevokeRow, TypeOK
    <2>5. ASSUME NEW c \in Connection, AuthPromote(c) PROVE pending'[d] # hash'[d]
      <3>1. \/ UNCHANGED <<hash, pending>>
            \/ /\ hash' = [hash EXCEPT ![connDev[c]] = pending[connDev[c]]]
               /\ pending' = [pending EXCEPT ![connDev[c]] = None]
        BY <2>5 DEF AuthPromote
      <3> QED BY <1>5, <1>t, <2>0, <3>1 DEF TypeOK
    <2>6. CASE UNCHANGED <<hash, pending>>
      BY <2>1, <2>6
    <2>7. \/ UNCHANGED <<hash, pending>>
          \/ \E r \in Handler : \/ ClaimCommit(r) \/ RotateSet(r)
                                \/ \E e \in Device : RevokeRow(r, e)
          \/ \E c \in Connection : AuthPromote(c)
      BY CredentialSteps
    <2> QED BY <2>2, <2>3, <2>4, <2>5, <2>6, <2>7
  <1>6. Fresh
    BY <1>1, <1>3, <1>4
  <1>7. \A r \in Handler : pc'[r] = "rotateSet" => secret'[r] \in Secret
    BY TypeStep, EnrollmentAssumption DEF TypeInv, PlacesInOrder, TypeOK
  <1> QED BY <1>5, <1>6, <1>7 DEF SecretsAreFresh, Held

ClientsInOrder == ClientsAtRest /\ LinksAreTheirs /\ ClaimsAreTheirs

LEMMA ClientsStep ==
    ASSUME TypeInv, ClientsInOrder, [Next]_vars
    PROVE  ClientsInOrder'
  <1>t. TypeOK /\ PlacesInOrder
    BY DEF TypeInv
  <1>n. Nobody \notin Handler /\ Nobody \notin Connection
    BY NobodyAssumption
  <1> DEFINE Goal == ClientsAtRest' /\ LinksAreTheirs' /\ ClaimsAreTheirs'
  <1>o. ClientsAtRest /\ LinksAreTheirs /\ ClaimsAreTheirs
    BY DEF ClientsInOrder
  <1> USE DEF tokenVars, credentialVars, handlerVars, connVars, clientVars
  <1>a. UNCHANGED <<pass, link, oldPass, adopting, clientPc>> => ClientsAtRest'
    BY <1>o DEF ClientsAtRest
  <1>l. UNCHANGED <<link, connDev, connPc, password, pass, clientPc>> => LinksAreTheirs'
    BY <1>o DEF LinksAreTheirs
  <1>c. UNCHANGED <<claiming, pass, dev, pc>> => ClaimsAreTheirs'
    BY <1>o DEF ClaimsAreTheirs
  <1>1. ASSUME NEW t \in Token, Expire(t) \/ \E d \in Device \cup {Anyone} : Mint(t, d) PROVE Goal
    BY <1>1, <1>a, <1>l, <1>c DEF Expire, Mint
  <1>2. ASSUME NEW r \in Handler, NEW d \in Device, NEW t \in Token, ClaimToken(r, d, t) PROVE Goal
    <2>1. /\ pass[d] = None /\ claiming[d] = Nobody /\ pc[r] = "idle"
          /\ claiming' = [claiming EXCEPT ![d] = r] /\ pc' = [pc EXCEPT ![r] = "claimLookup"]
          /\ dev' = [dev EXCEPT ![r] = d]
          /\ UNCHANGED <<connVars, pass, oldPass, link, clientPc, adopting>>
      BY <1>2 DEF ClaimToken, Goto
    <2>2. ClaimsAreTheirs'
      BY <1>o, <1>t, <1>n, <2>1 DEF ClaimsAreTheirs, TypeOK
    <2> QED BY <1>a, <1>l, <2>1, <2>2
  <1>3. ASSUME NEW r \in Handler, NEW d \in Device, RotateLookup(r, d) \/ RevokeRow(r, d) PROVE Goal
    <2>1. /\ pc[r] = "idle" /\ \E p : pc' = [pc EXCEPT ![r] = p]
          /\ dev' = [dev EXCEPT ![r] = d] /\ UNCHANGED <<connVars, clientVars>>
      BY <1>3 DEF RotateLookup, RevokeRow, Goto
    <2>2. ClaimsAreTheirs'
      BY <1>o, <1>t, <2>1 DEF ClaimsAreTheirs, TypeOK
    <2> QED BY <1>a, <1>l, <2>1, <2>2
  <1>4. ASSUME NEW r \in Handler, Refused(r), UNCHANGED <<dev, pass>> PROVE ClaimsAreTheirs'
    <2>1. /\ pc' = [pc EXCEPT ![r] = "idle"]
          /\ claiming' = [d \in Device |-> IF claiming[d] = r THEN Nobody ELSE claiming[d]]
      BY <1>4 DEF Refused, Goto
    <2> QED BY <1>o, <1>t, <1>n, <1>4, <2>1 DEF ClaimsAreTheirs, TypeOK
  <1>5. ASSUME NEW r \in Handler, NEW p \in {"claimCommit", "claimReply"}, Goto(r, p),
               UNCHANGED <<dev, claiming, pass>>
        PROVE  ClaimsAreTheirs'
    BY <1>o, <1>t, <1>5 DEF Goto, ClaimsAreTheirs, TypeOK
  <1>6. ASSUME NEW r \in Handler, ClaimLookup(r) \/ ClaimCommit(r) PROVE Goal
    <2>1. UNCHANGED <<dev, connVars, pass, oldPass, link, clientPc, adopting>>
      BY <1>6 DEF ClaimLookup, ClaimCommit
    <2>2. CASE Refused(r)
      BY <1>4, <1>a, <1>l, <2>1, <2>2
    <2>3. CASE ~Refused(r)
      <3>1. UNCHANGED claiming /\ (Goto(r, "claimCommit") \/ Goto(r, "claimReply"))
        BY <1>6, <2>3 DEF ClaimLookup, ClaimCommit
      <3> QED BY <1>5, <1>a, <1>l, <2>1, <3>1
    <2> QED BY <2>2, <2>3
  <1>7. ASSUME NEW r \in Handler, ClaimReply(r) PROVE Goal
    <2>1. /\ pass' = [d \in Device |-> IF claiming[d] = r THEN secret[r] ELSE pass[d]]
          /\ pc' = [pc EXCEPT ![r] = "idle"] /\ secret[r] # None
          /\ claiming' = [d \in Device |-> IF claiming[d] = r THEN Nobody ELSE claiming[d]]
          /\ UNCHANGED <<dev, connVars, oldPass, link, clientPc, adopting>>
      BY <1>7, <1>t DEF ClaimReply, Refused, Goto, PlacesInOrder
    <2>2. ClientsAtRest'
      BY <1>o, <2>1 DEF ClientsAtRest, ClaimsAreTheirs
    <2>3. LinksAreTheirs'
      BY <1>o, <1>n, <2>1 DEF ClientsAtRest, ClaimsAreTheirs, LinksAreTheirs
    <2>4. ClaimsAreTheirs'
      BY <1>o, <1>t, <1>n, <2>1 DEF ClaimsAreTheirs, TypeOK
    <2> QED BY <2>2, <2>3, <2>4
  <1>8. ASSUME NEW r \in Handler, RotateSet(r) \/ RotateSend(r) PROVE Goal
    <2>1. /\ pc[r] \in {"rotateSet", "rotateSend"} /\ \E p : pc' = [pc EXCEPT ![r] = p]
          /\ UNCHANGED <<dev, connPc, connDev, password, clientVars>>
      BY <1>8 DEF RotateSet, RotateSend, Goto
    <2>2. ClaimsAreTheirs'
      BY <1>o, <1>t, <2>1 DEF ClaimsAreTheirs, TypeOK
    <2> QED BY <1>a, <1>l, <2>1, <2>2
  <1>9. ASSUME NEW r \in Handler, RevokeKick(r) PROVE Goal
    <2>1. /\ pc[r] = "revokeKick" /\ pc' = [pc EXCEPT ![r] = "idle"]
          /\ connPc' = [c \in Connection |-> IF c \in Live(dev[r]) THEN "idle" ELSE connPc[c]]
          /\ link' = [link EXCEPT ![dev[r]] = IF @ \in Live(dev[r]) THEN Nobody ELSE @]
          /\ UNCHANGED <<dev, connDev, password, claiming, pass, oldPass, clientPc, adopting>>
      BY <1>9 DEF RevokeKick, Close, Goto
    <2>2. \A d \in Device : link'[d] = link[d] \/ link'[d] = Nobody
      BY <1>t, <2>1 DEF TypeOK
    <2>3. \A d \in Device : link'[d] # Nobody => link[d] \notin Live(dev[r])
      BY <1>t, <1>o, <1>n, <2>1 DEF TypeOK, LinksAreTheirs, Live
    <2>4. ClientsAtRest'
      BY <1>o, <2>1, <2>2 DEF ClientsAtRest
    <2>5. LinksAreTheirs'
      BY <1>o, <1>n, <2>1, <2>2, <2>3 DEF LinksAreTheirs
    <2>6. ClaimsAreTheirs'
      BY <1>o, <1>t, <2>1 DEF ClaimsAreTheirs, TypeOK
    <2> QED BY <2>4, <2>5, <2>6
  <1>10. ASSUME NEW c \in Connection, NEW d \in Device, Connect(c, d) PROVE Goal
    <2>1. /\ link[d] = Nobody /\ clientPc[d] = "run" /\ pass[d] # None /\ connPc[c] = "idle"
          /\ connPc' = [connPc EXCEPT ![c] = "read"] /\ connDev' = [connDev EXCEPT ![c] = d]
          /\ password' = [password EXCEPT ![c] = pass[d]] /\ link' = [link EXCEPT ![d] = c]
          /\ UNCHANGED <<handlerVars, claiming, pass, oldPass, clientPc, adopting>>
      BY <1>10 DEF Connect, GotoConn
    <2>2. ClientsAtRest'
      BY <1>o, <1>t, <2>1 DEF ClientsAtRest, TypeOK
    <2>3. LinksAreTheirs'
      BY <1>o, <1>t, <1>n, <2>1 DEF LinksAreTheirs, TypeOK
    <2> QED BY <1>c, <2>1, <2>2, <2>3
  <1>11. ASSUME NEW c \in Connection, connPc[c] \notin {"idle", "live"}, Refuse(c), UNCHANGED handlerVars
         PROVE  Goal
    <2> DEFINE d == connDev[c]
    <2>1. /\ d \in Device /\ connPc' = [connPc EXCEPT ![c] = "idle"]
          /\ UNCHANGED <<handlerVars, connDev, password, claiming, oldPass, adopting>>
      BY <1>11, <1>t DEF Refuse, GotoConn, PlacesInOrder
    <2>2. CASE link[d] # c
      <3>1. UNCHANGED <<link, pass, clientPc>>
        BY <1>11, <2>2 DEF Refuse
      <3>2. \A e \in Device : link[e] # c
        BY <1>o, <2>1, <2>2 DEF LinksAreTheirs
      <3>3. LinksAreTheirs'
        BY <1>o, <1>t, <2>1, <3>1, <3>2 DEF LinksAreTheirs, TypeOK
      <3> QED BY <1>a, <1>c, <2>1, <3>1, <3>3
    <2>3. CASE link[d] = c
      <3>1. link' = [link EXCEPT ![d] = Nobody] /\ clientPc[d] = "run" /\ pass[d] # None
        BY <1>o, <1>n, <1>11, <2>1, <2>3 DEF Refuse, LinksAreTheirs, ClientsAtRest
      <3>2. \/ UNCHANGED <<pass, clientPc>>
            \/ /\ pass' = [pass EXCEPT ![d] = oldPass[d]] /\ oldPass[d] # None
               /\ clientPc' = [clientPc EXCEPT ![d] = "fallBack"]
        BY <1>11, <2>3 DEF Refuse
      <3>3. \A e \in Device : e # d => link[e] # c
        BY <1>o, <2>1 DEF LinksAreTheirs
      <3>4. ClientsAtRest'
        BY <1>o, <1>t, <2>1, <3>1, <3>2 DEF ClientsAtRest, TypeOK
      <3>5. LinksAreTheirs'
        BY <1>o, <1>t, <1>n, <2>1, <3>1, <3>2, <3>3 DEF LinksAreTheirs, TypeOK
      <3>6. ClaimsAreTheirs'
        BY <1>o, <1>t, <2>1, <3>1, <3>2 DEF ClaimsAreTheirs, TypeOK
      <3> QED BY <3>4, <3>5, <3>6
    <2> QED BY <2>2, <2>3
  <1>12. ASSUME NEW c \in Connection, AuthRead(c) \/ AuthCompare(c) \/ AuthPromote(c) PROVE Goal
    <2>1. UNCHANGED handlerVars /\ connPc[c] \notin {"idle", "live"}
      BY <1>12 DEF AuthRead, AuthCompare, AuthPromote
    <2>2. CASE Refuse(c)
      BY <1>11, <2>1, <2>2
    <2>3. CASE ~Refuse(c)
      <3>1. /\ \E p \in {"compare", "promote", "admit"} : connPc' = [connPc EXCEPT ![c] = p]
            /\ UNCHANGED <<connDev, password, clientVars>>
        BY <1>12, <2>3 DEF AuthRead, AuthCompare, AuthPromote, GotoConn
      <3>2. LinksAreTheirs'
        BY <1>o, <1>t, <2>1, <3>1 DEF LinksAreTheirs, TypeOK
      <3> QED BY <1>a, <1>c, <2>1, <3>1, <3>2
    <2> QED BY <2>2, <2>3
  <1>13. ASSUME NEW c \in Connection, Admit(c) PROVE Goal
    <2> DEFINE d == connDev[c]
    <2>1. /\ d \in Device /\ connPc[c] = "admit" /\ c \notin Live(d)
          /\ connPc' = [b \in Connection |-> IF b = c THEN "live"
                                             ELSE IF b \in Live(d) THEN "idle" ELSE connPc[b]]
          /\ link' = [link EXCEPT ![d] = IF @ \in Live(d) THEN Nobody ELSE @]
          /\ oldPass' = [oldPass EXCEPT ![d] = None] \/ oldPass' = oldPass
          /\ UNCHANGED <<handlerVars, connDev, password, claiming, pass, clientPc, adopting>>
      BY <1>13, <1>t DEF Admit, PlacesInOrder, Live
    <2>2. \A e \in Device : link'[e] = link[e] \/ link'[e] = Nobody
      BY <1>t, <2>1 DEF TypeOK
    <2>3. \A e \in Device : link'[e] # Nobody => link[e] \notin Live(d)
      BY <1>t, <1>o, <1>n, <2>1 DEF TypeOK, LinksAreTheirs, Live
    <2>4. ClientsAtRest'
      BY <1>o, <1>t, <2>1, <2>2 DEF ClientsAtRest, TypeOK
    <2>5. LinksAreTheirs'
      BY <1>o, <1>n, <2>1, <2>2, <2>3 DEF LinksAreTheirs
    <2> QED BY <1>c, <2>1, <2>4, <2>5
  <1>14. ASSUME NEW c \in Connection, CloseDead(c) PROVE Goal
    <2>1. /\ connPc' = [b \in Connection |-> IF b = c THEN "idle" ELSE connPc[b]]
          /\ link[connDev[c]] # c /\ connPc[c] = "live"
          /\ UNCHANGED <<handlerVars, connDev, password, clientVars>>
      BY <1>14 DEF CloseDead, Close
    <2>2. \A e \in Device : link[e] # c
      BY <1>o, <2>1 DEF LinksAreTheirs
    <2>3. LinksAreTheirs'
      BY <1>o, <2>1, <2>2 DEF LinksAreTheirs
    <2> QED BY <1>a, <1>c, <2>1, <2>3
  <1>15. ASSUME NEW d \in Device, KeepOld(d) PROVE Goal
    <2>1. /\ link[d] \in Connection /\ clientPc[d] = "run" /\ connPc[link[d]] = "live"
          /\ box[link[d]] # None /\ oldPass' = [oldPass EXCEPT ![d] = pass[d]]
          /\ adopting' = [adopting EXCEPT ![d] = box[link[d]]]
          /\ clientPc' = [clientPc EXCEPT ![d] = "adopt"]
          /\ UNCHANGED <<handlerVars, connPc, connDev, password, claiming, pass, link>>
      BY <1>15, <1>t DEF KeepOld, TypeOK
    <2>2. ClientsAtRest'
      BY <1>o, <1>t, <1>n, <2>1 DEF ClientsAtRest, TypeOK
    <2>3. LinksAreTheirs'
      BY <1>o, <1>t, <2>1 DEF LinksAreTheirs, TypeOK
    <2> QED BY <1>c, <2>1, <2>2, <2>3
  <1>16. ASSUME NEW d \in Device, Adopt(d) PROVE Goal
    <2>1. /\ clientPc[d] = "adopt" /\ pass' = [pass EXCEPT ![d] = adopting[d]]
          /\ adopting' = [adopting EXCEPT ![d] = None]
          /\ clientPc' = [clientPc EXCEPT ![d] = "run"] /\ link' = [link EXCEPT ![d] = Nobody]
          /\ UNCHANGED <<handlerVars, connVars, claiming, oldPass>>
      BY <1>16 DEF Adopt
    <2>2. ClientsAtRest'
      BY <1>o, <1>t, <2>1 DEF ClientsAtRest, TypeOK
    <2>3. LinksAreTheirs'
      BY <1>o, <1>t, <1>n, <2>1 DEF LinksAreTheirs, TypeOK
    <2>4. ClaimsAreTheirs'
      BY <1>o, <1>t, <2>1 DEF ClaimsAreTheirs, ClientsAtRest, TypeOK
    <2> QED BY <2>2, <2>3, <2>4
  <1>17. ASSUME NEW d \in Device, ClearOld(d) PROVE Goal
    <2>1. /\ clientPc[d] = "fallBack" /\ oldPass' = [oldPass EXCEPT ![d] = None]
          /\ clientPc' = [clientPc EXCEPT ![d] = "run"]
          /\ UNCHANGED <<handlerVars, connVars, claiming, pass, link, adopting>>
      BY <1>17 DEF ClearOld
    <2>2. ClientsAtRest'
      BY <1>o, <1>t, <2>1 DEF ClientsAtRest, TypeOK
    <2>3. LinksAreTheirs'
      BY <1>o, <1>t, <2>1 DEF LinksAreTheirs, TypeOK
    <2> QED BY <1>c, <2>1, <2>2, <2>3
  <1>18. ASSUME NEW d \in Device, Drop(d) \/ Reprovision(d) PROVE Goal
    <2>1. /\ adopting' = [adopting EXCEPT ![d] = None]
          /\ clientPc' = [clientPc EXCEPT ![d] = "run"] /\ link' = [link EXCEPT ![d] = Nobody]
          /\ UNCHANGED <<handlerVars, connVars, claiming>>
      BY <1>18 DEF Drop, Reprovision
    <2>2. \/ UNCHANGED <<pass, oldPass>>
          \/ /\ pass' = [pass EXCEPT ![d] = None] /\ oldPass' = [oldPass EXCEPT ![d] = None]
      BY <1>18 DEF Drop, Reprovision
    <2>3. ClientsAtRest'
      BY <1>o, <1>t, <2>1, <2>2 DEF ClientsAtRest, TypeOK
    <2>4. LinksAreTheirs'
      BY <1>o, <1>t, <1>n, <2>1, <2>2 DEF LinksAreTheirs, TypeOK
    <2>5. ClaimsAreTheirs'
      BY <1>o, <1>t, <2>1, <2>2 DEF ClaimsAreTheirs, TypeOK
    <2> QED BY <2>3, <2>4, <2>5
  <1>19. ASSUME NEW d \in Device, GiveUpClaim(d) PROVE Goal
    <2>1. claiming' = [claiming EXCEPT ![d] = Nobody]
          /\ UNCHANGED <<handlerVars, connVars, pass, oldPass, link, clientPc, adopting>>
      BY <1>19 DEF GiveUpClaim
    <2>2. ClaimsAreTheirs'
      BY <1>o, <1>t, <1>n, <2>1 DEF ClaimsAreTheirs, TypeOK
    <2> QED BY <1>a, <1>l, <2>1, <2>2
  <1>20. ASSUME ServerRestart PROVE Goal
    <2>1. /\ claiming' = [d \in Device |-> Nobody] /\ link' = [d \in Device |-> Nobody]
          /\ UNCHANGED <<pass, oldPass, clientPc, adopting>>
      BY <1>20 DEF ServerRestart
    <2> QED BY <1>o, <1>n, <2>1 DEF ClientsAtRest, LinksAreTheirs, ClaimsAreTheirs
  <1>21. ASSUME UNCHANGED vars PROVE Goal
    BY <1>21, <1>a, <1>l, <1>c DEF vars
  <1>22. Goal
    BY <1>1, <1>2, <1>3, <1>6, <1>7, <1>8, <1>9, <1>10, <1>12, <1>13, <1>14, <1>15, <1>16, <1>17,
       <1>18, <1>19, <1>20, <1>21 DEF Next, Handle, Serve
  <1> QED BY ONLY <1>22 DEF ClientsInOrder

LEMMA FaultsStay ==
    ASSUME TypeInv, [Next]_vars, faults' = 0
    PROVE  faults = 0 /\ ~Fault
  <1> USE DEF bounds
  <1>t. faults \in Nat
    BY EnrollmentAssumption DEF TypeInv, TypeOK
  <1>f. ~Fault
    BY <1>t DEF Fault
  <1>1. ASSUME NEW t \in Token, Expire(t) \/ \E d \in Device \cup {Anyone} : Mint(t, d)
        PROVE  faults' = faults
    BY <1>1 DEF Expire, Mint
  <1>2. ASSUME NEW r \in Handler, NEW d \in Device,
               RotateLookup(r, d) \/ RevokeRow(r, d) \/ \E t \in Token : ClaimToken(r, d, t)
        PROVE  faults' = faults
    BY <1>2 DEF RotateLookup, RevokeRow, ClaimToken
  <1>3. ASSUME NEW r \in Handler, Handle(r) PROVE faults' = faults
    BY <1>3 DEF Handle, ClaimLookup, ClaimCommit, ClaimReply, RotateSet, RotateSend, RevokeKick
  <1>4. ASSUME NEW c \in Connection, Serve(c) \/ \E d \in Device : Connect(c, d)
        PROVE  faults' = faults
    BY <1>4, <1>f DEF Serve, AuthRead, AuthCompare, AuthPromote, Admit, CloseDead, Connect
  <1>5. ASSUME NEW d \in Device, \/ GiveUpClaim(d) \/ KeepOld(d) \/ Adopt(d) \/ ClearOld(d)
                                 \/ Drop(d) \/ Reprovision(d)
        PROVE  faults' = faults
    BY <1>5 DEF GiveUpClaim, KeepOld, Adopt, ClearOld, Drop, Reprovision
  <1>6. ASSUME ServerRestart \/ UNCHANGED vars PROVE faults' = faults
    BY <1>6, <1>f DEF ServerRestart, vars
  <1> QED BY <1>f, <1>1, <1>2, <1>3, <1>4, <1>5, <1>6 DEF Next

\* What RotationOf(d) reads.
DeviceStays(d) == /\ hash'[d] = hash[d] /\ pending'[d] = pending[d]
                  /\ pass'[d] = pass[d] /\ oldPass'[d] = oldPass[d] /\ clientPc'[d] = clientPc[d]
LinkStays(d) == \A c \in Connection : link'[d] = c =>
    /\ link[d] = c /\ connPc'[c] = connPc[c] /\ password'[c] = password[c]
    /\ snapHash'[c] = snapHash[c] /\ snapPending'[c] = snapPending[c]
ClaimStays(d) == \A r \in Handler : claiming'[d] = r /\ pc'[r] = "claimReply" =>
    claiming[d] = r /\ pc[r] = "claimReply" /\ secret'[r] = secret[r]
OffersStay(d) == \A c \in Connection : connPc'[c] # "idle" /\ connDev'[c] = d =>
    /\ connPc[c] # "idle" /\ connDev[c] = d /\ password'[c] = password[c]
    /\ connPc'[c] = "compare" => connPc[c] = "compare" /\ snapPending'[c] = snapPending[c]

LEMMA RotationFrame ==
    ASSUME NEW d \in Device, RotationOf(d), DeviceStays(d), LinkStays(d), ClaimStays(d), OffersStay(d)
    PROVE  RotationOf(d)'
  <1>1. hash[d] # None => CurrentIsKept(d)'
    BY DEF RotationOf, CurrentIsKept, DeviceStays, LinkStays, ClaimStays
  <1>2. pending[d] # None => PendingIsKnown(d)'
    BY DEF RotationOf, PendingIsKnown, WithoutPassword, DeviceStays, ClaimStays, OffersStay
  <1> QED BY <1>1, <1>2 DEF RotationOf, DeviceStays

\* Connections and claims of a device that the step does not touch.
LEMMA StaysSame ==
    /\ UNCHANGED <<hash, pending, pass, oldPass, clientPc>> => \A d : DeviceStays(d)
    /\ UNCHANGED <<link, connPc, password, snapHash, snapPending>> => \A d : LinkStays(d)
    /\ UNCHANGED <<claiming, pc, secret>> => \A d : ClaimStays(d)
    /\ UNCHANGED <<connPc, connDev, password, snapPending>> => \A d : OffersStay(d)
  BY DEF DeviceStays, LinkStays, ClaimStays, OffersStay

\* The steps of the handlers keep what a rotation relies on.
LEMMA HandlersKeepRotation ==
    ASSUME TypeInv, SecretsAreFresh, ClientsInOrder, CommitsForTheUnclaimed,
           \A d \in Device : RotationOf(d),
           NEW r \in Handler,
           \/ Handle(r)
           \/ \E d \in Device : \/ RotateLookup(r, d) \/ RevokeRow(r, d)
                                \/ \E t \in Token : ClaimToken(r, d, t)
    PROVE  \A d \in Device : RotationOf(d)'
  <1>t. TypeOK /\ PlacesInOrder
    BY DEF TypeInv
  <1>n. Nobody \notin Handler /\ Nobody \notin Connection
    BY NobodyAssumption
  <1>o. ClientsAtRest /\ LinksAreTheirs /\ ClaimsAreTheirs
    BY DEF ClientsInOrder
  <1> USE DEF tokenVars, credentialVars, handlerVars, connVars, clientVars
  <1> DEFINE Goal == \A d \in Device : RotationOf(d)'
             Touched == <<hash, pending, connVars, pass, oldPass, link, clientPc>>
  <1>c. ASSUME UNCHANGED Touched, NEW d \in Device, ClaimStays(d) PROVE RotationOf(d)'
    BY <1>c, RotationFrame, StaysSame
  <1>1. ASSUME NEW e \in Device, NEW t \in Token, ClaimToken(r, e, t) PROVE Goal
    <2>1. /\ claiming' = [claiming EXCEPT ![e] = r] /\ pc' = [pc EXCEPT ![r] = "claimLookup"]
          /\ UNCHANGED <<Touched, secret>>
      BY <1>1 DEF ClaimToken, Goto
    <2>2. \A d \in Device : ClaimStays(d)
      BY <1>t, <2>1 DEF ClaimStays, TypeOK
    <2> QED BY <1>c, <2>1, <2>2
  <1>2. ASSUME NEW e \in Device, RotateLookup(r, e) PROVE Goal
    <2>1. /\ pc' = [pc EXCEPT ![r] = "rotateSet"] /\ secret' = [secret EXCEPT ![r] = minted + 1]
          /\ UNCHANGED <<Touched, claiming>>
      BY <1>2 DEF RotateLookup, NewSecret, Goto
    <2>2. \A d \in Device : ClaimStays(d)
      BY <1>t, <2>1 DEF ClaimStays, TypeOK
    <2> QED BY <1>c, <2>1, <2>2
  <1>3. ASSUME NEW e \in Device, RevokeRow(r, e) PROVE Goal
    <2>1. /\ hash' = [hash EXCEPT ![e] = None] /\ pending' = [pending EXCEPT ![e] = None]
          /\ pc' = [pc EXCEPT ![r] = "revokeKick"] /\ UNCHANGED <<secret, connVars, clientVars>>
      BY <1>3 DEF RevokeRow, Goto
    <2>2. \A d \in Device : ClaimStays(d)
      BY <1>t, <2>1 DEF ClaimStays, TypeOK
    <2>3. ASSUME NEW d \in Device PROVE RotationOf(d)'
      <3>1. CASE d = e
        <4>1. hash'[d] = None /\ pending'[d] = None
          BY <1>t, <2>1, <3>1 DEF TypeOK
        <4> QED BY <4>1 DEF RotationOf
      <3>2. CASE d # e
        <4>1. DeviceStays(d)
          BY <2>1, <3>2 DEF DeviceStays
        <4> QED BY <2>1, <2>2, <4>1, RotationFrame, StaysSame
      <3> QED BY <3>1, <3>2
    <2> QED BY <2>3
  <1>4. ASSUME Refused(r), UNCHANGED secret, NEW d \in Device PROVE ClaimStays(d)
    <2>1. /\ pc' = [pc EXCEPT ![r] = "idle"]
          /\ claiming' = [e \in Device |-> IF claiming[e] = r THEN Nobody ELSE claiming[e]]
      BY <1>4 DEF Refused, Goto
    <2> QED BY <1>t, <1>n, <1>4, <2>1 DEF ClaimStays, TypeOK
  <1>5. ASSUME ClaimLookup(r) PROVE Goal
    <2>1. UNCHANGED Touched
      BY <1>5 DEF ClaimLookup
    <2>2. CASE Refused(r) /\ UNCHANGED secret
      BY <1>c, <1>4, <2>1, <2>2
    <2>3. CASE NewSecret(r) /\ Goto(r, "claimCommit") /\ UNCHANGED claiming
      <3>1. \A d \in Device : ClaimStays(d)
        BY <1>t, <2>3 DEF NewSecret, Goto, ClaimStays, TypeOK
      <3> QED BY <1>c, <2>1, <3>1
    <2> QED BY <1>5, <2>2, <2>3 DEF ClaimLookup
  <1>6. ASSUME ClaimCommit(r) PROVE Goal
    <2>1. UNCHANGED <<pending, secret, connVars, pass, oldPass, link, clientPc>>
      BY <1>6 DEF ClaimCommit
    <2>2. CASE Refused(r) /\ UNCHANGED hash
      BY <1>c, <1>4, <2>1, <2>2
    <2>3. CASE /\ hash[dev[r]] = None /\ hash' = [hash EXCEPT ![dev[r]] = secret[r]]
               /\ Goto(r, "claimReply") /\ UNCHANGED claiming
      <3>1. /\ pc[r] = "claimCommit" /\ pc' = [pc EXCEPT ![r] = "claimReply"]
            /\ pc'[r] = "claimReply" /\ dev[r] \in Device
        BY <1>6, <1>t, <2>3 DEF ClaimCommit, Goto, TypeOK, PlacesInOrder
      <3>2. pass[dev[r]] = None /\ \A q \in Handler : claiming[dev[r]] = q => pc[q] # "claimReply"
        BY <3>1 DEF CommitsForTheUnclaimed
      <3>3. ASSUME NEW d \in Device PROVE RotationOf(d)'
        <4>1. CASE d = dev[r]
          <5>1. pending'[d] = None
            BY <1>t, <2>1, <2>3, <4>1 DEF TypeOK
          <5>2. /\ pass'[d] = None /\ clientPc'[d] = "run" /\ link'[d] = Nobody
                /\ hash'[d] = secret'[r]
            BY <1>o, <1>t, <2>1, <2>3, <3>2, <4>1 DEF ClientsAtRest, TypeOK
          <5>3. \A q \in Handler : claiming'[d] = q /\ pc'[q] = "claimReply" => q = r
            BY <1>t, <2>3, <3>1, <3>2, <4>1 DEF TypeOK
          <5>4. CurrentIsKept(d)'
            BY <1>n, <5>2, <5>3 DEF CurrentIsKept
          <5> QED BY <5>1, <5>4 DEF RotationOf
        <4>2. CASE d # dev[r]
          <5>1. DeviceStays(d)
            BY <2>1, <2>3, <4>2 DEF DeviceStays
          <5>2. ClaimStays(d)
            BY <1>o, <1>t, <2>1, <2>3, <3>1, <4>2 DEF ClaimStays, ClaimsAreTheirs, TypeOK
          <5> QED BY <2>1, <5>1, <5>2, RotationFrame, StaysSame
        <4> QED BY <4>1, <4>2
      <3> QED BY <3>3
    <2> QED BY <1>6, <2>2, <2>3 DEF ClaimCommit
  <1>7. ASSUME ClaimReply(r) PROVE Goal
    <2>1. /\ pc[r] = "claimReply" /\ pc' = [pc EXCEPT ![r] = "idle"] /\ secret[r] # None
          /\ pass' = [d \in Device |-> IF claiming[d] = r THEN secret[r] ELSE pass[d]]
          /\ UNCHANGED <<hash, pending, secret, connVars, oldPass, link, clientPc>>
      BY <1>7, <1>t DEF ClaimReply, Refused, Goto, PlacesInOrder
    <2>2. \A d \in Device : ClaimStays(d)
      BY <1>4, <1>7, <2>1 DEF ClaimReply
    <2>3. ASSUME NEW d \in Device PROVE RotationOf(d)'
      <3>1. CASE claiming[d] = r
        <4>1. /\ pass[d] = None /\ link'[d] = Nobody /\ clientPc'[d] = "run"
              /\ pass'[d] = secret[r]
          BY <1>o, <2>1, <3>1 DEF ClaimsAreTheirs, ClientsAtRest
        <4>2. hash[d] # None => hash'[d] = pass'[d]
          BY <2>1, <3>1, <4>1 DEF RotationOf, CurrentIsKept
        <4>3. claiming'[d] = Nobody
          BY <1>7, <3>1 DEF ClaimReply, Refused
        <4>4. hash[d] # None => CurrentIsKept(d)'
          BY <1>n, <4>1, <4>2, <4>3 DEF CurrentIsKept
        <4>5. pending[d] # None => PendingIsKnown(d)'
          BY <2>1, <3>1, <4>1 DEF RotationOf, PendingIsKnown, WithoutPassword
        <4> QED BY <2>1, <4>4, <4>5 DEF RotationOf
      <3>2. CASE claiming[d] # r
        <4>1. DeviceStays(d)
          BY <2>1, <3>2 DEF DeviceStays
        <4> QED BY <2>1, <2>2, <4>1, RotationFrame, StaysSame
      <3> QED BY <3>1, <3>2
    <2> QED BY <2>3
  <1>8. ASSUME RotateSet(r) PROVE Goal
    <2>1. /\ pc[r] = "rotateSet" /\ \E p \in {"idle", "rotateSend"} : pc' = [pc EXCEPT ![r] = p]
          /\ ~InUse(secret[r])
          /\ UNCHANGED <<hash, secret, connVars, clientVars>>
      BY <1>8 DEF RotateSet, Goto, SecretsAreFresh
    <2>2. \A d \in Device : ClaimStays(d)
      BY <1>t, <2>1 DEF ClaimStays, TypeOK
    <2>3. CASE UNCHANGED pending
      BY <1>c, <2>1, <2>2, <2>3
    <2>4. CASE CanSetPending(dev[r]) /\ pending' = [pending EXCEPT ![dev[r]] = secret[r]]
      <3>1. ASSUME NEW d \in Device PROVE RotationOf(d)'
        <4>1. CASE d = dev[r]
          <5>1. hash[d] # None /\ pending[d] = None /\ pending'[d] = secret[r]
            BY <1>t, <2>4, <4>1 DEF CanSetPending, TypeOK
          <5>2. \A c \in Connection : password[c] # pending'[d]
            BY <2>1, <5>1 DEF InUse
          <5>3. \A c \in Connection : connPc[c] # "idle" => password[c] # None
            BY <1>t DEF PlacesInOrder
          <5>4. CurrentIsKept(d)
            BY <5>1 DEF RotationOf
          <5>5. CurrentIsKept(d)'
            BY <2>1, <5>1, <5>3, <5>4, <2>2 DEF CurrentIsKept, ClaimStays
          <5>6. PendingIsKnown(d)'
            BY <2>1, <5>2 DEF PendingIsKnown
          <5> QED BY <5>5, <5>6 DEF RotationOf
        <4>2. CASE d # dev[r]
          <5>1. DeviceStays(d)
            BY <2>1, <2>4, <4>2 DEF DeviceStays
          <5> QED BY <2>1, <2>2, <5>1, RotationFrame, StaysSame
        <4> QED BY <4>1, <4>2
      <3> QED BY <3>1
    <2> QED BY <1>8, <2>3, <2>4 DEF RotateSet
  <1>9. ASSUME RotateSend(r) PROVE Goal
    <2>1. /\ pc' = [pc EXCEPT ![r] = "idle"]
          /\ UNCHANGED <<hash, pending, secret, connPc, connDev, password, snapHash, snapPending,
                         clientVars>>
      BY <1>9 DEF RotateSend, Goto
    <2>2. \A d \in Device : ClaimStays(d)
      BY <1>t, <2>1 DEF ClaimStays, TypeOK
    <2> QED BY <2>1, <2>2, RotationFrame, StaysSame
  <1>10. ASSUME RevokeKick(r) PROVE Goal
    <2>1. /\ pc' = [pc EXCEPT ![r] = "idle"]
          /\ connPc' = [c \in Connection |-> IF c \in Live(dev[r]) THEN "idle" ELSE connPc[c]]
          /\ link' = [link EXCEPT ![dev[r]] = IF @ \in Live(dev[r]) THEN Nobody ELSE @]
          /\ UNCHANGED <<hash, pending, secret, connDev, password, snapHash, snapPending, claiming,
                         pass, oldPass, clientPc>>
      BY <1>10 DEF RevokeKick, Close, Goto
    <2>2. \A d \in Device : ClaimStays(d)
      BY <1>t, <2>1 DEF ClaimStays, TypeOK
    <2>3. \A d \in Device : /\ link'[d] = link[d] \/ link'[d] = Nobody
                            /\ link'[d] # Nobody => link[d] \notin Live(dev[r])
      BY <1>t, <1>o, <1>n, <2>1 DEF TypeOK, LinksAreTheirs, Live
    <2>4. \A d \in Device : LinkStays(d)
      BY <1>n, <2>1, <2>3 DEF LinkStays
    <2>5. \A d \in Device : OffersStay(d)
      BY <2>1 DEF OffersStay
    <2> QED BY <2>1, <2>2, <2>4, <2>5, RotationFrame, StaysSame
  <1> QED BY <1>1, <1>2, <1>3, <1>5, <1>6, <1>7, <1>8, <1>9, <1>10 DEF Handle

\* ... and so do those of the broker, as long as none of its reads fails ...
LEMMA RefusalKeepsRotation ==
    ASSUME TypeInv, SecretsAreFresh, ClientsInOrder, \A d \in Device : RotationOf(d),
           NEW c \in Connection, Refuse(c),
           \/ connPc[c] = "read" /\ hash[connDev[c]] = None
           \/ connPc[c] = "compare" /\ password[c] \notin {snapHash[c], snapPending[c]},
           UNCHANGED <<credentialVars, handlerVars>>
    PROVE  \A d \in Device : RotationOf(d)'
  <1> DEFINE e == connDev[c]
  <1>t. TypeOK /\ PlacesInOrder
    BY DEF TypeInv
  <1>n. c # Nobody
    BY NobodyAssumption
  <1>o. ClientsAtRest /\ LinksAreTheirs
    BY DEF ClientsInOrder
  <1> USE DEF credentialVars, handlerVars
  <1>1. /\ connPc' = [connPc EXCEPT ![c] = "idle"] /\ e \in Device
        /\ UNCHANGED <<hash, pending, pc, secret, connDev, password, snapHash, snapPending, claiming,
                       oldPass>>
    BY <1>t DEF Refuse, GotoConn, PlacesInOrder
  <1>2. \A d \in Device : OffersStay(d) /\ ClaimStays(d)
    BY <1>t, <1>1 DEF OffersStay, ClaimStays, TypeOK
  <1>3. ASSUME NEW d \in Device, link[d] # c PROVE RotationOf(d)'
    <2>1. link'[d] = link[d] /\ pass'[d] = pass[d] /\ clientPc'[d] = clientPc[d]
      <3>1. CASE link[e] = c
        BY <1>t, <1>3, <3>1 DEF Refuse, TypeOK
      <3>2. CASE link[e] # c
        BY <3>2 DEF Refuse
      <3> QED BY <3>1, <3>2
    <2>2. LinkStays(d)
      BY <1>t, <1>1, <1>3, <2>1 DEF LinkStays, TypeOK
    <2>3. DeviceStays(d)
      BY <1>1, <2>1 DEF DeviceStays
    <2> QED BY <1>2, <2>2, <2>3, RotationFrame
  <1>4. ASSUME NEW d \in Device, link[d] = c PROVE RotationOf(d)'
    <2>1. /\ d = e /\ link'[d] = Nobody /\ password[c] = pass[d] /\ pass[d] # None
          /\ clientPc[d] = "run"
      BY <1>o, <1>n, <1>t, <1>1, <1>4 DEF LinksAreTheirs, ClientsAtRest, Refuse, TypeOK
    <2>2. CASE hash[d] = None
      BY <1>1, <1>t, <2>2 DEF RotationOf, TypeOK
    <2>3. CASE hash[d] # None
      <3>0. connPc[c] = "compare" /\ password[c] \notin {snapHash[c], snapPending[c]}
        BY <2>1, <2>3
      <3>1. pass[d] # hash[d] /\ hash[d] = oldPass[d]
        BY <1>4, <2>1, <2>3, <3>0 DEF RotationOf, CurrentIsKept
      <3>2. pass'[d] = oldPass[d] /\ clientPc'[d] = "fallBack"
        BY <1>1, <1>4, <1>t, <2>1, <2>3, <3>1 DEF Refuse, TypeOK
      <3>3. claiming[d] \notin Handler
        BY <2>1 DEF ClientsInOrder, ClaimsAreTheirs
      <3>4. CurrentIsKept(d)'
        BY <1>1, <2>1, <3>1, <3>2, <3>3, NobodyAssumption DEF CurrentIsKept
      <3>5. pending[d] # None => PendingIsKnown(d)'
        <4> SUFFICES ASSUME pending[d] # None PROVE PendingIsKnown(d)'
          OBVIOUS
        <4>1. PendingIsKnown(d)
          BY DEF RotationOf
        <4>2. password[c] # pending[d]
          BY <2>1, <3>0, <4>1, <1>1 DEF PendingIsKnown, WithoutPassword
        <4>3. \A b \in Connection : connPc[b] # "idle" /\ connDev[b] = d => password[b] # pending[d]
          BY <2>1, <4>1, <4>2 DEF PendingIsKnown, WithoutPassword
        <4> QED BY <1>1, <1>t, <4>3 DEF PendingIsKnown, TypeOK
      <3> QED BY <1>1, <3>4, <3>5 DEF RotationOf
    <2> QED BY <2>2, <2>3
  <1> QED BY <1>3, <1>4

LEMMA BrokerKeepsRotation ==
    ASSUME TypeInv, SecretsAreFresh, ClientsInOrder, PromotesWhatItRead, ~Fault,
           \A d \in Device : RotationOf(d),
           NEW c \in Connection, Serve(c) \/ \E d \in Device : Connect(c, d)
    PROVE  \A d \in Device : RotationOf(d)'
  <1> DEFINE e == connDev[c]
             Goal == \A d \in Device : RotationOf(d)'
  <1>t. TypeOK /\ PlacesInOrder
    BY DEF TypeInv
  <1>n. Nobody \notin Handler /\ Nobody \notin Connection
    BY NobodyAssumption
  <1>o. ClientsAtRest /\ LinksAreTheirs /\ ClaimsAreTheirs
    BY DEF ClientsInOrder
  <1> USE DEF credentialVars, handlerVars, clientVars
  <1>1. ASSUME NEW f \in Device, Connect(c, f) PROVE Goal
    <2>1. /\ link[f] = Nobody /\ clientPc[f] = "run" /\ connPc[c] = "idle"
          /\ connPc' = [connPc EXCEPT ![c] = "read"] /\ connDev' = [connDev EXCEPT ![c] = f]
          /\ password' = [password EXCEPT ![c] = pass[f]] /\ link' = [link EXCEPT ![f] = c]
          /\ UNCHANGED <<hash, pending, pc, secret, snapHash, snapPending, claiming, pass, oldPass,
                         clientPc>>
      BY <1>1 DEF Connect, GotoConn
    <2>2. \A d \in Device : d # f => LinkStays(d) /\ OffersStay(d)
      BY <1>o, <1>t, <2>1 DEF LinkStays, OffersStay, LinksAreTheirs, TypeOK
    <2>3. ASSUME hash[f] # None PROVE CurrentIsKept(f)'
      <3>1. CurrentIsKept(f)
        BY <2>3 DEF RotationOf
      <3>2. link'[f] = c /\ connPc'[c] = "read"
        BY <1>t, <2>1 DEF TypeOK
      <3> QED BY <2>1, <3>1, <3>2 DEF CurrentIsKept
    <2>4. ASSUME pending[f] # None PROVE PendingIsKnown(f)'
      <3>1. PendingIsKnown(f)
        BY <2>4 DEF RotationOf
      <3>2. connPc'[c] = "read" /\ password'[c] = pass[f]
        BY <1>t, <2>1 DEF TypeOK
      <3>3. \A b \in Connection : b # c =>
               connPc'[b] = connPc[b] /\ connDev'[b] = connDev[b] /\ password'[b] = password[b]
        BY <2>1
      <3> QED BY <2>1, <3>1, <3>2, <3>3 DEF PendingIsKnown, WithoutPassword
    <2>5. RotationOf(f)'
      BY <2>1, <2>3, <2>4 DEF RotationOf
    <2> QED BY <2>1, <2>2, <2>5, RotationFrame, StaysSame
  <1>2. ASSUME AuthRead(c) PROVE Goal
    <2>1. CASE hash[e] = None /\ Refuse(c)
      BY <1>2, <2>1, RefusalKeepsRotation DEF AuthRead
    <2>2. CASE /\ snapHash' = [snapHash EXCEPT ![c] = hash[e]]
               /\ snapPending' = [snapPending EXCEPT ![c] = pending[e]]
               /\ GotoConn(c, "compare") /\ UNCHANGED <<connDev, password, clientVars>>
      <3>1. /\ connPc' = [connPc EXCEPT ![c] = "compare"] /\ connPc[c] = "read"
            /\ UNCHANGED <<hash, pending, pc, secret>>
        BY <1>2, <2>2 DEF AuthRead, GotoConn
      <3>2. \A d \in Device : d # e => LinkStays(d) /\ OffersStay(d)
        BY <1>o, <1>t, <2>2, <3>1 DEF LinkStays, OffersStay, LinksAreTheirs, TypeOK
      <3>3. connPc'[c] = "compare" /\ snapHash'[c] = hash[e] /\ snapPending'[c] = pending[e]
        BY <1>t, <2>2, <3>1 DEF TypeOK
      <3>4. \A b \in Connection : b # c => /\ connPc'[b] = connPc[b] /\ snapHash'[b] = snapHash[b]
                                           /\ snapPending'[b] = snapPending[b]
        BY <2>2, <3>1
      <3>5. ASSUME e \in Device, hash[e] # None PROVE CurrentIsKept(e)'
        <4>1. CurrentIsKept(e)
          BY <3>5 DEF RotationOf
        <4>2. connDev'[c] = e
          BY <2>2
        <4> QED BY <2>2, <3>1, <3>3, <3>4, <4>1 DEF CurrentIsKept
      <3>6. ASSUME e \in Device, pending[e] # None PROVE PendingIsKnown(e)'
        <4>1. PendingIsKnown(e)
          BY <3>6 DEF RotationOf
        <4> QED BY <2>2, <3>1, <3>3, <3>4, <4>1 DEF PendingIsKnown, WithoutPassword
      <3>7. \A d \in Device : d = e => RotationOf(d)'
        BY <2>2, <3>1, <3>5, <3>6 DEF RotationOf
      <3> QED BY <2>2, <3>1, <3>2, <3>7, RotationFrame, StaysSame
    <2> QED BY <1>2, <2>1, <2>2 DEF AuthRead
  <1>3. ASSUME AuthCompare(c) PROVE Goal
    <2>1. CASE password[c] \notin {snapHash[c], snapPending[c]} /\ Refuse(c)
      BY <1>3, <2>1, RefusalKeepsRotation DEF AuthCompare
    <2>2. ASSUME NEW p \in {"admit", "promote"}, GotoConn(c, p),
                 p = "admit" => password[c] = snapHash[c],
                 p = "promote" => password[c] = snapPending[c],
                 UNCHANGED <<connDev, password, snapHash, snapPending, clientVars>>
          PROVE  Goal
      <3>1. /\ connPc' = [connPc EXCEPT ![c] = p] /\ connPc[c] = "compare"
            /\ UNCHANGED <<hash, pending, pc, secret>>
        BY <1>3, <2>2 DEF AuthCompare, GotoConn
      <3>2. \A d \in Device : OffersStay(d) /\ (d # e => LinkStays(d))
        BY <1>o, <1>t, <2>2, <3>1 DEF LinkStays, OffersStay, LinksAreTheirs, TypeOK
      <3>3. connPc'[c] = p /\ \A b \in Connection : b # c => connPc'[b] = connPc[b]
        BY <1>t, <3>1 DEF TypeOK
      <3>4. ASSUME e \in Device, hash[e] # None PROVE CurrentIsKept(e)'
        <4>1. CurrentIsKept(e)
          BY <3>4 DEF RotationOf
        <4>2. ASSUME link[e] = c, p = "admit" PROVE pass[e] = hash[e]
          <5>1. password[c] = pass[e] /\ password[c] = snapHash[c]
            BY <1>o, <2>2, <3>4, <4>2 DEF LinksAreTheirs
          <5>2. password[c] = hash[e]
            BY <3>1, <4>1, <4>2, <5>1 DEF CurrentIsKept
          <5> QED BY <5>1, <5>2
        <4>3. link[e] = c /\ p = "promote" => password[c] \in {hash[e], pending[e]}
          BY <2>2, <3>1, <4>1 DEF CurrentIsKept
        <4> QED BY <2>2, <3>1, <3>3, <4>1, <4>2, <4>3 DEF CurrentIsKept
      <3>5. ASSUME e \in Device, pending[e] # None PROVE PendingIsKnown(e)'
        <4>1. PendingIsKnown(e)
          BY <3>5 DEF RotationOf
        <4> QED BY <2>2, <3>1, <3>3, <4>1 DEF PendingIsKnown, WithoutPassword
      <3>6. \A d \in Device : d = e => RotationOf(d)'
        BY <2>2, <3>1, <3>4, <3>5 DEF RotationOf
      <3> QED BY <2>2, <3>1, <3>2, <3>6, RotationFrame, StaysSame
    <2> QED BY <1>3, <2>1, <2>2 DEF AuthCompare
  <1>4. ASSUME AuthPromote(c) PROVE Goal
    <2>1. /\ connPc[c] = "promote" /\ connPc' = [connPc EXCEPT ![c] = "admit"]
          /\ e \in Device
          /\ UNCHANGED <<pc, secret, connDev, password, snapHash, snapPending, clientVars>>
      BY <1>4, <1>t DEF AuthPromote, GotoConn, PlacesInOrder
    <2>2. \A d \in Device : OffersStay(d) /\ (d # e => LinkStays(d))
      BY <1>o, <1>t, <2>1 DEF LinkStays, OffersStay, LinksAreTheirs, TypeOK
    <2>3. connPc'[c] = "admit" /\ \A b \in Connection : b # c => connPc'[b] = connPc[b]
      BY <1>t, <2>1 DEF TypeOK
    <2>4. password[c] # None
      BY <1>t, <2>1 DEF PlacesInOrder
    <2>5. CASE pending[e] = None /\ UNCHANGED <<hash, pending>>
      <3>1. ASSUME hash[e] # None PROVE CurrentIsKept(e)'
        <4>1. CurrentIsKept(e)
          BY <2>1, <3>1 DEF RotationOf
        <4>2. link[e] = c => pass[e] = hash[e]
          BY <1>o, <2>1, <2>4, <2>5, <4>1 DEF CurrentIsKept, LinksAreTheirs
        <4> QED BY <2>1, <2>3, <2>5, <4>1, <4>2 DEF CurrentIsKept
      <3>2. \A d \in Device : d = e => RotationOf(d)'
        BY <2>1, <2>5, <3>1 DEF RotationOf
      <3> QED BY <2>1, <2>2, <2>5, <3>2, RotationFrame, StaysSame
    <2>6. CASE /\ pending[e] # None /\ hash' = [hash EXCEPT ![e] = pending[e]]
               /\ pending' = [pending EXCEPT ![e] = None]
      <3>1. password[c] = pending[e] /\ hash[e] # None /\ pending[e] # hash[e]
        BY <1>t, <2>1, <2>3, <2>6 DEF PromotesWhatItRead, PlacesInOrder, TypeOK, SecretsAreFresh
      <3>2. pending'[e] = None /\ hash'[e] = pending[e]
        BY <1>t, <2>1, <2>6 DEF TypeOK
      <3>3. PendingIsKnown(e) /\ CurrentIsKept(e)
        BY <2>1, <2>6, <3>1 DEF RotationOf
      <3>4. pass[e] = hash'[e] \/ WithoutPassword(e)
        BY <2>1, <3>1, <3>2, <3>3 DEF PendingIsKnown
      <3>5. clientPc[e] # "adopt" /\ (pass[e] = None => link[e] = Nobody /\ clientPc[e] = "run")
        BY <1>o, <2>1, <3>1, <3>2, <3>3, <3>4 DEF CurrentIsKept, WithoutPassword, ClientsAtRest
      <3>6. \A q \in Handler : claiming[e] = q => pc[q] # "claimReply"
        BY <1>o, <2>1, <2>4, <3>1, <3>2, <3>4 DEF ClaimsAreTheirs, WithoutPassword
      <3>7. \A b \in Connection : link[e] = b => connDev[b] = e /\ password[b] = pass[e] /\ connPc[b] # "idle"
        BY <1>o, <2>1 DEF LinksAreTheirs
      <3>8. \A b \in Connection : link[e] = b /\ connPc[b] = "compare" => snapPending[b] = password[b]
        BY <1>n, <3>2, <3>3, <3>4, <3>5, <3>7 DEF PendingIsKnown, WithoutPassword
      <3>9. CurrentIsKept(e)'
        BY <1>n, <2>1, <2>3, <3>4, <3>5, <3>6, <3>7, <3>8
        DEF CurrentIsKept, WithoutPassword
      <3>10. \A d \in Device : d = e => RotationOf(d)'
        BY <2>1, <3>2, <3>9 DEF RotationOf
      <3>11. \A d \in Device : d # e => DeviceStays(d)
        BY <2>1, <2>6 DEF DeviceStays
      <3> QED BY <2>1, <2>2, <3>10, <3>11, RotationFrame, StaysSame
    <2> QED BY <1>4, <2>5, <2>6 DEF AuthPromote
  <1>5. ASSUME Admit(c) PROVE Goal
    <2>1. /\ e \in Device /\ connPc[c] = "admit" /\ c \notin Live(e)
          /\ connPc' = [b \in Connection |-> IF b = c THEN "live"
                                             ELSE IF b \in Live(e) THEN "idle" ELSE connPc[b]]
          /\ link' = [link EXCEPT ![e] = IF @ \in Live(e) THEN Nobody ELSE @]
          /\ oldPass' = IF link[e] = c THEN [oldPass EXCEPT ![e] = None] ELSE oldPass
          /\ UNCHANGED <<hash, pending, pc, secret, connDev, password, snapHash, snapPending,
                         claiming, pass, clientPc>>
      BY <1>5, <1>t DEF Admit, PlacesInOrder, Live
    <2>2. \A d \in Device : OffersStay(d)
      BY <1>t, <2>1 DEF OffersStay, TypeOK
    <2>3. \A d \in Device : /\ link'[d] = link[d] \/ link'[d] = Nobody
                            /\ link'[d] # Nobody => link[d] \notin Live(e)
      BY <1>t, <1>o, <1>n, <2>1 DEF TypeOK, LinksAreTheirs, Live
    <2>4. ASSUME NEW d \in Device, link[d] # c PROVE RotationOf(d)'
      <3>1. LinkStays(d)
        BY <1>n, <2>1, <2>3, <2>4 DEF LinkStays
      <3>2. DeviceStays(d)
        BY <2>1, <2>4 DEF DeviceStays
      <3> QED BY <2>1, <2>2, <3>1, <3>2, RotationFrame, StaysSame
    <2>5. ASSUME NEW d \in Device, link[d] = c PROVE RotationOf(d)'
      <3>1. d = e /\ link'[d] = c /\ clientPc[d] = "run"
        BY <1>o, <1>t, <2>1, <2>5 DEF LinksAreTheirs, TypeOK
      <3>2. ASSUME hash[d] # None PROVE CurrentIsKept(d)'
        <4>1. CurrentIsKept(d)
          BY <3>2 DEF RotationOf
        <4>2. pass[d] = hash[d]
          BY <2>1, <2>5, <3>1, <4>1 DEF CurrentIsKept
        <4>3. connPc'[c] = "live"
          BY <2>1
        <4> QED BY <2>1, <3>1, <4>1, <4>2, <4>3 DEF CurrentIsKept
      <3>3. ASSUME pending[d] # None PROVE PendingIsKnown(d)'
        <4>1. PendingIsKnown(d)
          BY <3>3 DEF RotationOf
        <4> QED BY <2>1, <2>2, <4>1 DEF PendingIsKnown, WithoutPassword, OffersStay
      <3> QED BY <2>1, <3>2, <3>3 DEF RotationOf
    <2> QED BY <2>4, <2>5
  <1>6. ASSUME CloseDead(c) PROVE Goal
    <2>1. /\ connPc' = [b \in Connection |-> IF b = c THEN "idle" ELSE connPc[b]]
          /\ link[e] # c /\ connPc[c] = "live"
          /\ UNCHANGED <<hash, pending, pc, secret, connDev, password, snapHash, snapPending,
                         clientVars>>
      BY <1>6 DEF CloseDead, Close
    <2>2. \A d \in Device : OffersStay(d) /\ LinkStays(d)
      BY <1>o, <2>1 DEF OffersStay, LinkStays, LinksAreTheirs
    <2> QED BY <2>1, <2>2, RotationFrame, StaysSame
  <1> QED BY <1>1, <1>2, <1>3, <1>4, <1>5, <1>6 DEF Serve

\* ... and so do those of the client.
LEMMA ClientKeepsRotation ==
    ASSUME TypeInv, SecretsAreFresh, ClientsInOrder, \A d \in Device : RotationOf(d),
           NEW e \in Device,
           GiveUpClaim(e) \/ KeepOld(e) \/ Adopt(e) \/ ClearOld(e) \/ Drop(e) \/ Reprovision(e)
    PROVE  \A d \in Device : RotationOf(d)'
  <1> DEFINE Goal == \A d \in Device : RotationOf(d)'
  <1>t. TypeOK /\ PlacesInOrder
    BY DEF TypeInv
  <1>n. Nobody \notin Handler /\ Nobody \notin Connection
    BY NobodyAssumption
  <1>o. ClientsAtRest /\ LinksAreTheirs
    BY DEF ClientsInOrder
  <1> USE DEF credentialVars, handlerVars, connVars
  <1>1. ASSUME GiveUpClaim(e) PROVE Goal
    <2>1. /\ claiming' = [claiming EXCEPT ![e] = Nobody]
          /\ UNCHANGED <<hash, pending, pc, secret, connVars, pass, oldPass, link, clientPc>>
      BY <1>1 DEF GiveUpClaim
    <2>2. \A d \in Device : ClaimStays(d)
      BY <1>t, <1>n, <2>1 DEF ClaimStays, TypeOK
    <2> QED BY <2>1, <2>2, RotationFrame, StaysSame
  <1>2. ASSUME KeepOld(e) PROVE Goal
    <2>1. /\ link[e] \in Connection /\ clientPc[e] = "run" /\ connPc[link[e]] = "live"
          /\ oldPass' = [oldPass EXCEPT ![e] = pass[e]]
          /\ clientPc' = [clientPc EXCEPT ![e] = "adopt"]
          /\ UNCHANGED <<hash, pending, pc, secret, connPc, connDev, password, snapHash,
                         snapPending, claiming, pass, link>>
      BY <1>2, <1>t DEF KeepOld, TypeOK
    <2>2. ASSUME hash[e] # None PROVE CurrentIsKept(e)'
      <3>1. CurrentIsKept(e)
        BY <2>2 DEF RotationOf
      <3>2. pass[e] = hash[e] /\ oldPass'[e] = hash[e] /\ clientPc'[e] = "adopt"
        BY <1>t, <2>1, <3>1 DEF CurrentIsKept, TypeOK
      <3>3. \A c \in Connection : link[e] = c => connPc[c] = "live"
        BY <2>1
      <3> QED BY <2>1, <3>1, <3>2, <3>3 DEF CurrentIsKept
    <2>3. ASSUME pending[e] # None PROVE PendingIsKnown(e)'
      BY <2>1, <2>3 DEF RotationOf, PendingIsKnown, WithoutPassword
    <2>4. \A d \in Device : d # e => DeviceStays(d)
      BY <2>1 DEF DeviceStays
    <2>5. RotationOf(e)'
      BY <2>1, <2>2, <2>3 DEF RotationOf
    <2> QED BY <2>1, <2>4, <2>5, RotationFrame, StaysSame
  <1>3. ASSUME Adopt(e) \/ ClearOld(e) \/ Drop(e) \/ Reprovision(e),
               NEW d \in Device, d # e
        PROVE  RotationOf(d)'
    <2>1. UNCHANGED <<hash, pending, pc, secret, connVars, claiming>>
      BY <1>3 DEF Adopt, ClearOld, Drop, Reprovision
    <2>0. /\ link' = link \/ link' = [link EXCEPT ![e] = Nobody]
          /\ \E x : pass' = pass \/ pass' = [pass EXCEPT ![e] = x]
          /\ \E x : oldPass' = oldPass \/ oldPass' = [oldPass EXCEPT ![e] = x]
          /\ \E x : clientPc' = clientPc \/ clientPc' = [clientPc EXCEPT ![e] = x]
      BY <1>3 DEF Adopt, ClearOld, Drop, Reprovision
    <2>2. link'[d] = link[d] /\ DeviceStays(d)
      BY <1>3, <1>t, <2>0, <2>1 DEF DeviceStays, TypeOK
    <2>3. LinkStays(d)
      BY <2>1, <2>2 DEF LinkStays
    <2> QED BY <2>1, <2>2, <2>3, RotationFrame, StaysSame
  <1>4. ASSUME Adopt(e) PROVE RotationOf(e)'
    <2>1. /\ clientPc[e] = "adopt" /\ link'[e] = Nobody /\ clientPc'[e] = "run"
          /\ pass'[e] = adopting[e] /\ adopting[e] # None
          /\ UNCHANGED <<hash, pending, pc, secret, connVars, claiming, oldPass>>
      BY <1>4, <1>o, <1>t DEF Adopt, ClientsAtRest, TypeOK
    <2>2. ASSUME hash[e] # None PROVE CurrentIsKept(e)'
      <3>1. CurrentIsKept(e)
        BY <2>2 DEF RotationOf
      <3> QED BY <1>n, <2>1, <3>1 DEF CurrentIsKept
    <2>3. ASSUME pending[e] # None PROVE PendingIsKnown(e)'
      <3>1. CurrentIsKept(e) /\ PendingIsKnown(e) /\ pending[e] # hash[e]
        BY <1>t, <2>3 DEF RotationOf, TypeOK, SecretsAreFresh
      <3>2. pass[e] # pending[e] /\ pass[e] # None
        BY <1>o, <2>1, <3>1 DEF CurrentIsKept, ClientsAtRest
      <3> QED BY <2>1, <3>1, <3>2 DEF PendingIsKnown, WithoutPassword
    <2> QED BY <2>1, <2>2, <2>3 DEF RotationOf
  <1>5. ASSUME ClearOld(e) PROVE RotationOf(e)'
    <2>1. /\ clientPc[e] = "fallBack" /\ link'[e] = Nobody /\ clientPc'[e] = "run"
          /\ UNCHANGED <<hash, pending, pc, secret, connVars, claiming, pass>>
      BY <1>5, <1>o, <1>t DEF ClearOld, ClientsAtRest, TypeOK
    <2>2. ASSUME hash[e] # None PROVE CurrentIsKept(e)'
      <3>1. CurrentIsKept(e)
        BY <2>2 DEF RotationOf
      <3> QED BY <1>n, <2>1, <3>1 DEF CurrentIsKept
    <2>3. ASSUME pending[e] # None PROVE PendingIsKnown(e)'
      BY <2>1, <2>3 DEF RotationOf, PendingIsKnown, WithoutPassword
    <2> QED BY <2>1, <2>2, <2>3 DEF RotationOf
  <1>6. ASSUME Drop(e) PROVE RotationOf(e)'
    <2>1. /\ link'[e] = Nobody /\ clientPc'[e] = "run"
          /\ UNCHANGED <<hash, pending, pc, secret, connVars, claiming, pass, oldPass>>
      BY <1>6, <1>t DEF Drop, TypeOK
    <2>2. ASSUME hash[e] # None PROVE CurrentIsKept(e)'
      <3>1. CurrentIsKept(e)
        BY <2>2 DEF RotationOf
      <3> QED BY <1>n, <2>1, <3>1 DEF CurrentIsKept
    <2>3. ASSUME pending[e] # None PROVE PendingIsKnown(e)'
      BY <2>1, <2>3 DEF RotationOf, PendingIsKnown, WithoutPassword
    <2> QED BY <2>1, <2>2, <2>3 DEF RotationOf
  <1>7. ASSUME Reprovision(e) PROVE RotationOf(e)'
    <2>1. /\ pass[e] # None /\ pass'[e] = None /\ link'[e] = Nobody /\ clientPc'[e] = "run"
          /\ UNCHANGED <<hash, pending, pc, secret, connVars, claiming>>
      BY <1>7, <1>t DEF Reprovision, TypeOK
    <2>2. claiming[e] \notin Handler
      BY <2>1 DEF ClientsInOrder, ClaimsAreTheirs
    <2>3. ASSUME hash[e] # None PROVE CurrentIsKept(e)'
      BY <1>n, <2>1, <2>2 DEF CurrentIsKept
    <2>4. ASSUME pending[e] # None PROVE PendingIsKnown(e)'
      BY <2>1, <2>2, <2>4 DEF RotationOf, PendingIsKnown, WithoutPassword
    <2> QED BY <2>1, <2>3, <2>4 DEF RotationOf
  <1> QED BY <1>1, <1>2, <1>3, <1>4, <1>5, <1>6, <1>7

\* A restart of the server ends connections and claims, and touches no password.
LEMMA RestartKeepsRotation ==
    ASSUME \A d \in Device : RotationOf(d), ServerRestart
    PROVE  \A d \in Device : RotationOf(d)'
  <1>1. /\ \A c \in Connection : connPc'[c] = "idle"
        /\ \A r \in Handler : pc'[r] = "idle"
        /\ \A d \in Device : link'[d] = Nobody
        /\ UNCHANGED <<hash, pending, pass, oldPass, clientPc>>
    BY DEF ServerRestart, Close, credentialVars
  <1>2. ASSUME NEW d \in Device
        PROVE  DeviceStays(d) /\ LinkStays(d) /\ ClaimStays(d) /\ OffersStay(d)
    BY <1>1, NobodyAssumption DEF DeviceStays, LinkStays, ClaimStays, OffersStay
  <1> QED BY <1>2, RotationFrame

LEMMA RotationStep ==
    ASSUME TypeInv, SecretsAreFresh, ClientsInOrder, RotationInv, [Next]_vars,
           PromotesWhatItRead, CommitsForTheUnclaimed
    PROVE  RotationInv'
  <1> DEFINE Goal == \A d \in Device : RotationOf(d)'
  <1>1. SUFFICES ASSUME faults' = 0 PROVE Goal
    BY DEF RotationInv
  <1>2. faults = 0 /\ ~Fault /\ \A d \in Device : RotationOf(d)
    BY <1>1, FaultsStay DEF RotationInv
  <1>3. ASSUME NEW t \in Token, Expire(t) \/ \E d \in Device \cup {Anyone} : Mint(t, d) PROVE Goal
    BY <1>2, <1>3, RotationFrame, StaysSame
    DEF Expire, Mint, credentialVars, handlerVars, connVars, clientVars
  <1>4. ASSUME NEW r \in Handler,
               \/ Handle(r)
               \/ \E d \in Device : \/ RotateLookup(r, d) \/ RevokeRow(r, d)
                                    \/ \E t \in Token : ClaimToken(r, d, t)
        PROVE  Goal
    BY <1>2, <1>4, HandlersKeepRotation
  <1>5. ASSUME NEW c \in Connection, Serve(c) \/ \E d \in Device : Connect(c, d) PROVE Goal
    BY <1>2, <1>5, BrokerKeepsRotation
  <1>6. ASSUME NEW d \in Device, \/ GiveUpClaim(d) \/ KeepOld(d) \/ Adopt(d) \/ ClearOld(d)
                                 \/ Drop(d) \/ Reprovision(d)
        PROVE  Goal
    BY <1>2, <1>6, ClientKeepsRotation
  <1>7. ASSUME UNCHANGED vars PROVE Goal
    BY <1>2, <1>7, RotationFrame, StaysSame
    DEF vars, credentialVars, handlerVars, connVars, clientVars
  <1>8. ASSUME ServerRestart PROVE Goal
    BY <1>2, <1>8, RestartKeepsRotation
  <1> QED BY <1>2, <1>3, <1>4, <1>5, <1>6, <1>7, <1>8 DEF Next

EnrollmentInv == TypeInv /\ SecretsAreFresh /\ ClientsInOrder

LEMMA InitEnrollmentInv == Init => EnrollmentInv /\ RotationInv /\ UnclaimedHaveNone
  <1> SUFFICES ASSUME Init PROVE EnrollmentInv /\ RotationInv /\ UnclaimedHaveNone
    OBVIOUS
  <1>1. TypeInv
    BY InitTypeInv
  <1>2. \A x \in Secret : x # None
    BY EnrollmentAssumption DEF Secret, None
  <1>3. SecretsAreFresh
    BY <1>2 DEF Init, SecretsAreFresh, InUse, None
  <1>4. ClientsInOrder
    BY NobodyAssumption DEF Init, ClientsInOrder, ClientsAtRest, LinksAreTheirs, ClaimsAreTheirs
  <1>5. RotationInv /\ UnclaimedHaveNone
    BY NobodyAssumption DEF Init, RotationInv, RotationOf, UnclaimedHaveNone
  <1> QED BY <1>1, <1>3, <1>4, <1>5 DEF EnrollmentInv

LEMMA EnrollmentInvStep == EnrollmentInv /\ [Next]_vars => EnrollmentInv'
  BY TypeStep, FreshStep, ClientsStep DEF EnrollmentInv

LEMMA KeptSuffices == EnrollmentInv /\ RotationInv => NeverLockedOut
  <1> SUFFICES ASSUME RotationInv, NEW d \in Device, hash[d] # None, pass[d] # None, faults = 0
               PROVE  {pass[d], oldPass[d]} \cap ({hash[d], pending[d]} \ {None}) # {}
    BY DEF NeverLockedOut
  <1>1. hash[d] \in {pass[d], oldPass[d]}
    BY DEF RotationInv, RotationOf, CurrentIsKept
  <1> QED BY <1>1

\* Without a revocation a claim commits only for a device that has no password yet,
\* nor one on its way: the second race needs a revocation.
LEMMA UnclaimedStep ==
    ASSUME EnrollmentInv, UnclaimedHaveNone, [Next]_vars, revokes' = 0
    PROVE  /\ revokes = 0
           /\ UnclaimedHaveNone'
           /\ CommitsForTheUnclaimed
  <1>t. TypeOK /\ PlacesInOrder
    BY DEF EnrollmentInv, TypeInv
  <1>v. revokes \in Nat
    BY <1>t, EnrollmentAssumption DEF TypeOK
  <1>o. ClientsAtRest /\ LinksAreTheirs /\ ClaimsAreTheirs
    BY DEF EnrollmentInv, ClientsInOrder
  <1>n. Nobody \notin Handler
    BY NobodyAssumption
  <1> USE DEF credentialVars, handlerVars, connVars, clientVars, bounds
  <1> DEFINE NoneBefore(d) == /\ pass[d] = None
                              /\ \A q \in Handler : claiming[d] = q => pc[q] # "claimReply"
             NoneAfter(d) == /\ pass'[d] = None
                             /\ \A q \in Handler : claiming'[d] = q => pc'[q] # "claimReply"
             Commits == \A r \in Handler : pc[r] = "claimCommit" /\ pc'[r] = "claimReply" =>
                            hash[dev[r]] = None
             Goal == /\ revokes = 0 /\ Commits
                     /\ \A d \in Device : hash[d] = None /\ hash'[d] = None /\ NoneBefore(d) => NoneAfter(d)
             Quiet == /\ revokes' = revokes
                      /\ \A r \in Handler : pc'[r] = "claimReply" => pc[r] = "claimReply"
                      /\ \A d \in Device : \A q \in Handler :
                            claiming'[d] = q => claiming[d] = q \/ pc'[q] = "claimLookup"
                      /\ \A d \in Device : hash[d] = None /\ NoneBefore(d) => pass'[d] = None
  <1>q. Quiet => Goal
    OBVIOUS
  <1> HIDE DEF Quiet
  <1>1. ASSUME NEW t \in Token, Expire(t) \/ \E d \in Device \cup {Anyone} : Mint(t, d) PROVE Goal
    BY <1>1, <1>q DEF Expire, Mint, Quiet
  <1>2. ASSUME NEW r \in Handler, NEW d \in Device, RotateLookup(r, d) PROVE Goal
    <2>1. pc' = [pc EXCEPT ![r] = "rotateSet"] /\ UNCHANGED <<revokes, clientVars>>
      BY <1>2 DEF RotateLookup, Goto
    <2> QED BY <1>q, <1>t, <2>1 DEF Quiet, TypeOK
  <1>3. ASSUME NEW r \in Handler, NEW e \in Device, NEW t \in Token, ClaimToken(r, e, t) PROVE Goal
    <2>1. /\ claiming' = [claiming EXCEPT ![e] = r] /\ pc' = [pc EXCEPT ![r] = "claimLookup"]
          /\ UNCHANGED <<revokes, pass>>
      BY <1>3 DEF ClaimToken, Goto
    <2> QED BY <1>q, <1>t, <2>1 DEF Quiet, TypeOK
  <1>4. ASSUME NEW r \in Handler, NEW d \in Device, RevokeRow(r, d) PROVE Goal
    BY <1>4, <1>v DEF RevokeRow
  <1>5. ASSUME NEW r \in Handler, ClaimLookup(r) PROVE Goal
    <2>1. /\ \E p \in {"idle", "claimCommit"} : pc' = [pc EXCEPT ![r] = p]
          /\ \/ claiming' = claiming
             \/ claiming' = [d \in Device |-> IF claiming[d] = r THEN Nobody ELSE claiming[d]]
          /\ UNCHANGED <<revokes, pass>>
      BY <1>5 DEF ClaimLookup, Refused, Goto
    <2> QED BY <1>q, <1>t, <1>n, <2>1 DEF Quiet, TypeOK
  <1>6. ASSUME NEW r \in Handler, ClaimCommit(r) PROVE Goal
    <2>1. UNCHANGED <<revokes, pass>>
      BY <1>6 DEF ClaimCommit
    <2>2. CASE Refused(r)
      <3>1. /\ pc' = [pc EXCEPT ![r] = "idle"]
            /\ claiming' = [d \in Device |-> IF claiming[d] = r THEN Nobody ELSE claiming[d]]
        BY <2>2 DEF Refused, Goto
      <3> QED BY <1>q, <1>t, <1>n, <2>1, <3>1 DEF Quiet, TypeOK
    <2>3. CASE /\ hash[dev[r]] = None /\ hash' = [hash EXCEPT ![dev[r]] = secret[r]]
               /\ Goto(r, "claimReply") /\ UNCHANGED claiming
      <3>1. /\ pc' = [pc EXCEPT ![r] = "claimReply"] /\ dev[r] \in Device /\ secret[r] # None
        BY <1>6, <1>t, <2>3 DEF ClaimCommit, Goto, PlacesInOrder
      <3>2. hash'[dev[r]] # None
        BY <1>t, <2>3, <3>1 DEF TypeOK
      <3>3. Commits
        BY <1>t, <2>3, <3>1 DEF TypeOK
      <3>4. ASSUME NEW d \in Device, hash[d] = None, hash'[d] = None, NoneBefore(d) PROVE NoneAfter(d)
        <4>1. claiming[d] # r
          BY <1>o, <3>2, <3>4 DEF ClaimsAreTheirs
        <4> QED BY <1>t, <2>1, <2>3, <3>1, <3>4, <4>1 DEF TypeOK
      <3> QED BY <1>v, <2>1, <3>3, <3>4
    <2> QED BY <1>6, <2>2, <2>3 DEF ClaimCommit
  <1>7. ASSUME NEW r \in Handler, ClaimReply(r) PROVE Goal
    <2>1. /\ pc[r] = "claimReply" /\ pc' = [pc EXCEPT ![r] = "idle"]
          /\ pass' = [d \in Device |-> IF claiming[d] = r THEN secret[r] ELSE pass[d]]
          /\ claiming' = [d \in Device |-> IF claiming[d] = r THEN Nobody ELSE claiming[d]]
          /\ UNCHANGED revokes
      BY <1>7 DEF ClaimReply, Refused, Goto
    <2> QED BY <1>q, <1>t, <1>n, <2>1 DEF Quiet, TypeOK
  <1>8. ASSUME NEW r \in Handler, RotateSet(r) \/ RotateSend(r) \/ RevokeKick(r) PROVE Goal
    <2>1. /\ \E p \in {"idle", "rotateSend"} : pc' = [pc EXCEPT ![r] = p]
          /\ UNCHANGED <<revokes, pass, claiming>>
      BY <1>8 DEF RotateSet, RotateSend, RevokeKick, Goto
    <2> QED BY <1>q, <1>t, <2>1 DEF Quiet, TypeOK
  <1>9. ASSUME NEW c \in Connection, Refuse(c), UNCHANGED <<handlerVars, revokes>> PROVE Goal
    <2>1. \A d \in Device : pass[d] = None => pass'[d] = None
      <3>1. CASE pass' = pass
        BY <3>1
      <3>2. CASE /\ oldPass[connDev[c]] # None
                 /\ pass' = [pass EXCEPT ![connDev[c]] = oldPass[connDev[c]]]
        BY <1>o, <1>t, <3>2 DEF ClientsAtRest, TypeOK
      <3> QED BY <1>9, <3>1, <3>2 DEF Refuse
    <2> QED BY <1>q, <1>9, <2>1 DEF Refuse, Quiet
  <1>10. ASSUME NEW c \in Connection, Serve(c) \/ \E d \in Device : Connect(c, d) PROVE Goal
    <2>1. UNCHANGED <<handlerVars, revokes>>
      BY <1>10 DEF Serve, AuthRead, AuthCompare, AuthPromote, Admit, CloseDead, Connect, Fault
    <2>2. CASE Refuse(c)
      BY <1>9, <2>1, <2>2
    <2>3. CASE ~Refuse(c)
      <3>1. UNCHANGED <<pass, claiming>>
        BY <1>10, <2>3 DEF Serve, AuthRead, AuthCompare, AuthPromote, Admit, CloseDead, Connect
      <3> QED BY <1>q, <2>1, <3>1 DEF Quiet
    <2> QED BY <2>2, <2>3
  <1>11. ASSUME NEW d \in Device, GiveUpClaim(d) PROVE Goal
    <2>1. claiming' = [claiming EXCEPT ![d] = Nobody] /\ UNCHANGED <<handlerVars, revokes, pass>>
      BY <1>11 DEF GiveUpClaim
    <2> QED BY <1>q, <1>t, <1>n, <2>1 DEF Quiet, TypeOK
  <1>12. ASSUME NEW d \in Device, KeepOld(d) \/ Adopt(d) \/ ClearOld(d) \/ Drop(d) \/ Reprovision(d)
         PROVE  Goal
    <2>1. UNCHANGED <<handlerVars, revokes, claiming>>
      BY <1>12 DEF KeepOld, Adopt, ClearOld, Drop, Reprovision
    <2>2. \/ pass' = pass \/ pass' = [pass EXCEPT ![d] = None]
          \/ pass' = [pass EXCEPT ![d] = adopting[d]]
      BY <1>12 DEF KeepOld, Adopt, ClearOld, Drop, Reprovision
    <2>3. \A e \in Device : pass[e] = None => pass'[e] = None
      BY <1>o, <1>t, <2>2 DEF ClientsAtRest, TypeOK
    <2> QED BY <1>q, <2>1, <2>3 DEF Quiet
  <1>13. ASSUME ServerRestart PROVE Goal
    <2>1. /\ pc' = [r \in Handler |-> "idle"] /\ claiming' = [d \in Device |-> Nobody]
          /\ UNCHANGED <<revokes, pass>>
      BY <1>13 DEF ServerRestart, Fault
    <2> QED BY <1>q, <1>n, <2>1 DEF Quiet
  <1>14. ASSUME UNCHANGED vars PROVE Goal
    BY <1>14, <1>q DEF vars, Quiet
  <1>15. Goal
    BY <1>1, <1>2, <1>3, <1>4, <1>5, <1>6, <1>7, <1>8, <1>10, <1>11, <1>12, <1>13, <1>14
    DEF Next, Handle
  <1>16. \A d \in Device : hash[d] = None => NoneBefore(d)
    BY <1>15 DEF UnclaimedHaveNone
  <1>17. \A r \in Handler : pc[r] = "claimCommit" => dev[r] \in Device
    BY <1>t DEF PlacesInOrder
  <1>18. \A d \in Device : hash'[d] = None => hash[d] = None
    <2> SUFFICES ASSUME NEW d \in Device, hash[d] # None, hash'[d] = None PROVE FALSE
      OBVIOUS
    <2>1. ASSUME NEW r \in Handler, ClaimCommit(r) \/ RotateSet(r) PROVE FALSE
      <3>1. hash' = hash \/ (hash[dev[r]] = None /\ hash' = [hash EXCEPT ![dev[r]] = secret[r]])
        BY <2>1 DEF ClaimCommit, RotateSet
      <3> QED BY <1>t, <3>1 DEF TypeOK
    <2>2. ASSUME NEW r \in Handler, NEW e \in Device, RevokeRow(r, e) PROVE FALSE
      BY <1>15, <2>2 DEF RevokeRow
    <2>3. ASSUME NEW c \in Connection, AuthPromote(c) PROVE FALSE
      <3>1. \/ hash' = hash
            \/ /\ pending[connDev[c]] # None
               /\ hash' = [hash EXCEPT ![connDev[c]] = pending[connDev[c]]]
        BY <2>3 DEF AuthPromote
      <3> QED BY <1>t, <3>1 DEF TypeOK
    <2> QED BY <2>1, <2>2, <2>3, CredentialSteps
  <1>19. UnclaimedHaveNone'
    BY <1>15, <1>16, <1>18 DEF UnclaimedHaveNone
  <1>20. CommitsForTheUnclaimed
    BY <1>15, <1>16, <1>17 DEF CommitsForTheUnclaimed
  <1> QED BY <1>15, <1>19, <1>20

-----------------------------------------------------------------------------
\* A device is not locked out, wherever between server and flash a rotation stops
\* and whatever else happens - claims, revocations, resets, restarts of the server,
\* dropped connections, lost or late messages - while no statement of the server fails
\* and neither of the two races is run (Authenticate and PromotePending; Claim;
\* handle_cmd_cred).
THEOREM NobodyIsLockedOut ==
    Spec /\ [][PromotesWhatItRead /\ CommitsForTheUnclaimed]_vars => []NeverLockedOut
  <1> DEFINE Inv == EnrollmentInv /\ RotationInv
  <1>1. Init => Inv
    BY InitEnrollmentInv
  <1>2. Inv /\ [Next]_vars /\ [PromotesWhatItRead /\ CommitsForTheUnclaimed]_vars => Inv'
    <2> SUFFICES ASSUME Inv, [Next]_vars, [PromotesWhatItRead /\ CommitsForTheUnclaimed]_vars
                 PROVE  Inv'
      OBVIOUS
    <2>1. EnrollmentInv'
      BY EnrollmentInvStep
    <2>2. CASE PromotesWhatItRead /\ CommitsForTheUnclaimed
      BY <2>1, <2>2, RotationStep DEF EnrollmentInv
    <2>3. CASE UNCHANGED vars
      <3>1. PromotesWhatItRead /\ CommitsForTheUnclaimed
        BY <2>3 DEF PromotesWhatItRead, CommitsForTheUnclaimed, vars, handlerVars, connVars
      <3> QED BY <2>2, <3>1
    <2> QED BY <2>2, <2>3
  <1>3. Inv => NeverLockedOut
    BY KeptSuffices
  <1> QED BY <1>1, <1>2, <1>3, PTL DEF Spec

\* Where nothing is revoked only the race of two rotations is left to rule out.
THEOREM NobodyIsLockedOutUnlessRevoked ==
    MaxRevokes = 0 => (Spec /\ [][PromotesWhatItRead]_vars => []NeverLockedOut)
  <1> SUFFICES ASSUME MaxRevokes = 0
               PROVE  Spec /\ [][PromotesWhatItRead]_vars => []NeverLockedOut
    OBVIOUS
  <1> DEFINE Inv == EnrollmentInv /\ RotationInv /\ UnclaimedHaveNone
  <1>1. Init => Inv
    BY InitEnrollmentInv
  <1>2. Inv /\ [Next]_vars /\ [PromotesWhatItRead]_vars => Inv'
    <2> SUFFICES ASSUME Inv, [Next]_vars, [PromotesWhatItRead]_vars
                 PROVE  Inv'
      OBVIOUS
    <2>1. EnrollmentInv'
      BY EnrollmentInvStep
    <2>2. revokes' = 0
      BY <2>1 DEF EnrollmentInv, TypeInv, TypeOK
    <2>3. UnclaimedHaveNone' /\ CommitsForTheUnclaimed
      BY <2>2, UnclaimedStep
    <2>4. PromotesWhatItRead
      BY DEF PromotesWhatItRead, vars, connVars
    <2>5. RotationInv'
      BY <2>3, <2>4, RotationStep DEF EnrollmentInv
    <2> QED BY <2>1, <2>3, <2>5
  <1>3. Inv => NeverLockedOut
    BY KeptSuffices
  <1> QED BY <1>1, <1>2, <1>3, PTL DEF Spec

\* While every promotion is of the password that was compared, the current one is
\* replaced only by one a device has used (PromotePending, SetPendingHash, Claim).
THEOREM CurrentIsReplacedByProof ==
    Spec /\ [][PromotesWhatItRead]_vars => CurrentStaysUntilProved
  <1> DEFINE Stays == \A d \in Device : hash[d] # None /\ hash'[d] \notin {hash[d], None} =>
                          \E c \in Connection : connDev[c] = d /\ password[c] = hash'[d]
  <1>1. TypeInv /\ [Next]_vars /\ [PromotesWhatItRead]_vars => [Stays]_vars
    <2> SUFFICES ASSUME TypeInv, [Next]_vars, PromotesWhatItRead,
                        NEW d \in Device, hash[d] # None, hash'[d] \notin {hash[d], None}
                 PROVE  \E c \in Connection : connDev[c] = d /\ password[c] = hash'[d]
      OBVIOUS
    <2>t. TypeOK /\ PlacesInOrder
      BY DEF TypeInv
    <2>1. PICK c \in Connection : AuthPromote(c)
      <3>1. ASSUME NEW r \in Handler, ClaimCommit(r) \/ RotateSet(r) PROVE FALSE
        <4>1. hash' = hash \/ (hash[dev[r]] = None /\ hash' = [hash EXCEPT ![dev[r]] = secret[r]])
          BY <3>1 DEF ClaimCommit, RotateSet
        <4> QED BY <2>t, <4>1 DEF TypeOK
      <3>2. ASSUME NEW r \in Handler, NEW e \in Device, RevokeRow(r, e) PROVE FALSE
        BY <2>t, <3>2 DEF RevokeRow, TypeOK
      <3> QED BY <3>1, <3>2, CredentialSteps
    <2>2. /\ connPc[c] = "promote" /\ pending[connDev[c]] # None
          /\ hash' = [hash EXCEPT ![connDev[c]] = pending[connDev[c]]]
          /\ connPc' = [connPc EXCEPT ![c] = "admit"]
      BY <2>1 DEF AuthPromote, GotoConn
    <2>3. connDev[c] = d /\ hash'[d] = pending[d]
      BY <2>t, <2>2 DEF TypeOK
    <2>4. pending[d] = password[c]
      BY <2>t, <2>2, <2>3 DEF PromotesWhatItRead, PlacesInOrder, TypeOK
    <2> QED BY <2>3, <2>4
  <1> QED BY InitTypeInv, TypeStep, <1>1, PTL DEF Spec, CurrentStaysUntilProved
=============================================================================
