-------------------------- MODULE EnrollmentProofs --------------------------
(***************************************************************************)
(* Proofs about Enrollment: what concurrent, interrupted and repeated      *)
(* enrollments leave on the server and on the machines, for any number of  *)
(* machines, attempts, tokens and failures.                                *)
(***************************************************************************)
EXTENDS Enrollment, TLAPS

LEMMA InitEstablishes == Init => EnrollInv
<1> SUFFICES ASSUME Init
             PROVE  EnrollInv
  OBVIOUS
<1> USE EnrollmentAssumption DEF Init
<1>1. TypeOK
  BY DEF TypeOK, Tokens, HostIds, Handling
<1>2. RequestsConsistent /\ InitConsistent
  BY DEF RequestsConsistent, InitConsistent, Handling, Inits
<1>3. AdmissionSound /\ TokenNotBurned /\ NothingLostYet
  BY DEF AdmissionSound, TokenNotBurned, NothingLostYet, Issued
<1>4. CredentialsConsistent /\ HostIdConsistent
  BY DEF CredentialsConsistent, HostIdConsistent, Issued, HostIds, Inits, Holders
<1> QED
  BY <1>1, <1>2, <1>3, <1>4 DEF EnrollInv

LEMMA GenerateTokenPreserves ==
    ASSUME EnrollInv, NEW t \in DbTokens, GenerateEnrollmentToken(t)
    PROVE  EnrollInv'
<1> USE EnrollmentAssumption DEF EnrollInv, GenerateEnrollmentToken, request, disk
<1>0. \A a \in Attempts : HostOf(a)' = HostOf(a)
  BY DEF HostOf
<1>i. \A m \in Machines : Inits(m)' = Inits(m)
  BY DEF Inits, TypeOK
<1>1. TypeOK'
  BY DEF TypeOK, RequestsConsistent, InitConsistent, HostOf, Tokens, HostIds,
     Handling
<1>2. RequestsConsistent'
  BY DEF RequestsConsistent, InitConsistent, TypeOK, Tokens, Handling
<1>3. InitConsistent'
  BY <1>i DEF Inits, Holders, InitConsistent, RequestsConsistent, TypeOK, Handling
<1>4. AdmissionSound'
  BY <1>0 DEF AdmissionSound, RequestsConsistent, InitConsistent, HostIds, Issued,
     Handling, TypeOK
<1>5. CredentialsConsistent'
  BY <1>0, <1>i DEF Inits, Holders, CredentialsConsistent, AdmissionSound, RequestsConsistent,
     InitConsistent, HostIds, Issued, Handling, TypeOK
<1>6. HostIdConsistent'
  BY <1>0, <1>i DEF Inits, Holders, HostIdConsistent, InitConsistent, RequestsConsistent, HostIds, Issued,
     Handling, TypeOK
<1>7. NothingLostYet' /\ TokenNotBurned'
  BY DEF NothingLostYet, TokenNotBurned, InitConsistent, RequestsConsistent, Issued,
     Handling, TypeOK
<1> QED
  BY <1>1, <1>2, <1>3, <1>4, <1>5, <1>6, <1>7

LEMMA ExpirePreserves ==
    ASSUME EnrollInv, NEW t \in DbTokens, Expire(t)
    PROVE  EnrollInv'
<1> USE EnrollmentAssumption DEF EnrollInv, Expire, request, disk
<1>0. \A a \in Attempts : HostOf(a)' = HostOf(a)
  BY DEF HostOf
<1>i. \A m \in Machines : Inits(m)' = Inits(m)
  BY DEF Inits, TypeOK
<1>1. TypeOK'
  BY DEF TypeOK, RequestsConsistent, InitConsistent, HostOf, Tokens, HostIds,
     Handling
<1>2. RequestsConsistent'
  BY DEF RequestsConsistent, InitConsistent, TypeOK, Tokens, Handling
<1>3. InitConsistent'
  BY <1>i DEF Inits, Holders, InitConsistent, RequestsConsistent, TypeOK, Handling
<1>4. AdmissionSound'
  BY <1>0 DEF AdmissionSound, RequestsConsistent, InitConsistent, HostIds, Issued,
     Handling, TypeOK
<1>5. CredentialsConsistent'
  BY <1>0, <1>i DEF Inits, Holders, CredentialsConsistent, AdmissionSound, RequestsConsistent,
     InitConsistent, HostIds, Issued, Handling, TypeOK
<1>6. HostIdConsistent'
  BY <1>0, <1>i DEF Inits, Holders, HostIdConsistent, InitConsistent, RequestsConsistent, HostIds, Issued,
     Handling, TypeOK
<1>7. NothingLostYet' /\ TokenNotBurned'
  BY DEF NothingLostYet, TokenNotBurned, InitConsistent, RequestsConsistent, Issued,
     Handling, TypeOK
<1> QED
  BY <1>1, <1>2, <1>3, <1>4, <1>5, <1>6, <1>7

LEMMA FoundPreserves ==
    ASSUME EnrollInv, NEW b \in Attempts, Found(b)
    PROVE  EnrollInv'
<1> USE EnrollmentAssumption DEF EnrollInv, Found, server, request, disk
<1>0. \A a \in Attempts : HostOf(a)' = HostOf(a)
  BY DEF HostOf
<1>i. \A m \in Machines : Inits(m)' = Inits(m)
  BY DEF Inits, TypeOK
<1>1. TypeOK'
  BY DEF TypeOK, RequestsConsistent, InitConsistent, HostOf, Tokens, HostIds,
     Handling
<1>2. RequestsConsistent'
  BY DEF RequestsConsistent, InitConsistent, TypeOK, Tokens, Handling
<1>3. InitConsistent'
  BY <1>i DEF Inits, Holders, InitConsistent, RequestsConsistent, TypeOK, Handling
<1>4. AdmissionSound'
  BY <1>0 DEF AdmissionSound, RequestsConsistent, InitConsistent, HostIds, Issued,
     Handling, TypeOK
<1>5. CredentialsConsistent'
  BY <1>0, <1>i DEF Inits, Holders, CredentialsConsistent, AdmissionSound, RequestsConsistent,
     InitConsistent, HostIds, Issued, Handling, TypeOK
<1>6. HostIdConsistent'
  BY <1>0, <1>i DEF Inits, Holders, HostIdConsistent, InitConsistent, RequestsConsistent, HostIds, Issued,
     Handling, TypeOK
<1>7. NothingLostYet' /\ TokenNotBurned'
  BY DEF NothingLostYet, TokenNotBurned, InitConsistent, RequestsConsistent, Issued,
     Handling, TypeOK
<1> QED
  BY <1>1, <1>2, <1>3, <1>4, <1>5, <1>6, <1>7

LEMMA SelectTokenPreserves ==
    ASSUME EnrollInv, NEW b \in Attempts, SelectToken(b)
    PROVE  EnrollInv'
<1> USE EnrollmentAssumption DEF EnrollInv, SelectToken, server, request, disk
<1>0. \A a \in Attempts : HostOf(a)' = HostOf(a)
  BY DEF HostOf
<1>i. \A m \in Machines : Inits(m)' = Inits(m)
  BY DEF Inits, TypeOK
<1>1. TypeOK'
  BY DEF TypeOK, RequestsConsistent, InitConsistent, HostOf, Tokens, HostIds,
     Handling
<1>2. RequestsConsistent'
  BY DEF RequestsConsistent, InitConsistent, TypeOK, Tokens, Handling
<1>3. InitConsistent'
  BY <1>i DEF Inits, Holders, InitConsistent, RequestsConsistent, TypeOK, Handling
<1>4. AdmissionSound'
  BY <1>0 DEF AdmissionSound, RequestsConsistent, InitConsistent, HostIds, Issued,
     Handling, TypeOK
<1>5. CredentialsConsistent'
  BY <1>0, <1>i DEF Inits, Holders, CredentialsConsistent, AdmissionSound, RequestsConsistent,
     InitConsistent, HostIds, Issued, Handling, TypeOK
<1>6. HostIdConsistent'
  BY <1>0, <1>i DEF Inits, Holders, HostIdConsistent, InitConsistent, RequestsConsistent, HostIds, Issued,
     Handling, TypeOK
<1>7. NothingLostYet' /\ TokenNotBurned'
  BY DEF NothingLostYet, TokenNotBurned, InitConsistent, RequestsConsistent, Issued,
     Handling, TypeOK
<1> QED
  BY <1>1, <1>2, <1>3, <1>4, <1>5, <1>6, <1>7

LEMMA MarkUsedPreserves ==
    ASSUME EnrollInv, NEW b \in Attempts, MarkUsed(b)
    PROVE  EnrollInv'
<1> USE EnrollmentAssumption DEF EnrollInv, MarkUsed, server, request, disk
<1>0. \A a \in Attempts : HostOf(a)' = HostOf(a)
  BY DEF HostOf
<1>i. \A m \in Machines : Inits(m)' = Inits(m)
  BY DEF Inits, TypeOK
<1>1. TypeOK'
  BY DEF TypeOK, RequestsConsistent, InitConsistent, HostOf, Tokens, HostIds,
     Handling
<1>2. RequestsConsistent'
  BY DEF RequestsConsistent, InitConsistent, TypeOK, Tokens, Handling
<1>3. InitConsistent'
  BY <1>i DEF Inits, Holders, InitConsistent, RequestsConsistent, TypeOK, Handling
<1>4. AdmissionSound'
  BY <1>0 DEF AdmissionSound, RequestsConsistent, InitConsistent, HostIds, Issued,
     Handling, TypeOK
<1>5. CredentialsConsistent'
  BY <1>0, <1>i DEF Inits, Holders, CredentialsConsistent, AdmissionSound, RequestsConsistent,
     InitConsistent, HostIds, Issued, Handling, TypeOK
<1>6. HostIdConsistent'
  BY <1>0, <1>i DEF Inits, Holders, HostIdConsistent, InitConsistent, RequestsConsistent, HostIds, Issued,
     Handling, TypeOK
<1>7. NothingLostYet' /\ TokenNotBurned'
  BY DEF NothingLostYet, TokenNotBurned, InitConsistent, RequestsConsistent, Issued,
     Handling, TypeOK
<1> QED
  BY <1>1, <1>2, <1>3, <1>4, <1>5, <1>6, <1>7

LEMMA RegisterPreserves ==
    ASSUME EnrollInv, NEW b \in Attempts, Register(b)
    PROVE  EnrollInv'
<1> USE EnrollmentAssumption DEF EnrollInv, Register, server, request, disk
<1>0. \A a \in Attempts : HostOf(a)' = HostOf(a)
  BY DEF HostOf
<1>i. \A m \in Machines : Inits(m)' = Inits(m)
  BY DEF Inits, TypeOK
<1>1. TypeOK'
  BY DEF TypeOK, RequestsConsistent, InitConsistent, HostOf, Tokens, HostIds,
     Handling
<1>2. RequestsConsistent'
  BY DEF RequestsConsistent, InitConsistent, TypeOK, Tokens, Handling
<1>3. InitConsistent'
  BY <1>i DEF Inits, Holders, InitConsistent, RequestsConsistent, TypeOK, Handling
<1>4. AdmissionSound'
  BY <1>0 DEF AdmissionSound, RequestsConsistent, InitConsistent, HostIds, Issued,
     Handling, TypeOK
<1>5. CredentialsConsistent'
  BY <1>0, <1>i DEF Inits, Holders, CredentialsConsistent, AdmissionSound, RequestsConsistent,
     InitConsistent, HostIds, Issued, Handling, TypeOK
<1>6. HostIdConsistent'
  BY <1>0, <1>i DEF Inits, Holders, HostIdConsistent, InitConsistent, RequestsConsistent, HostIds, Issued,
     Handling, TypeOK
<1>7. NothingLostYet' /\ TokenNotBurned'
  BY DEF NothingLostYet, TokenNotBurned, InitConsistent, RequestsConsistent, Issued,
     Handling, TypeOK
<1> QED
  BY <1>1, <1>2, <1>3, <1>4, <1>5, <1>6, <1>7

LEMMA IssuePreserves ==
    ASSUME EnrollInv, NEW b \in Attempts, Issue(b)
    PROVE  EnrollInv'
<1> USE EnrollmentAssumption DEF EnrollInv, Issue, server, request, disk
<1>0. \A a \in Attempts : HostOf(a)' = HostOf(a)
  BY DEF HostOf
<1>i. \A m \in Machines : Inits(m)' = Inits(m)
  BY DEF Inits, TypeOK
<1>1. TypeOK'
  BY DEF TypeOK, RequestsConsistent, InitConsistent, HostOf, Tokens, HostIds,
     Handling
<1>2. RequestsConsistent'
  BY DEF RequestsConsistent, InitConsistent, TypeOK, Tokens, Handling
<1>3. InitConsistent'
  BY <1>i DEF Inits, Holders, InitConsistent, RequestsConsistent, TypeOK, Handling
<1>4. AdmissionSound'
  <2>1. HostOf(b) \in HostIds
    BY DEF RequestsConsistent, HostOf, HostIds, Handling
  <2>2. credentials' = [h \in HostIds |-> IF h = HostOf(b) THEN b ELSE
     credentials[h]]
    BY <2>1 DEF TypeOK
  <2>3. HostOf(b) \in hosts
    BY DEF CredentialsConsistent
  <2> QED
    BY <1>0, <2>1, <2>2, <2>3 DEF AdmissionSound, Issued, TypeOK
<1>5. CredentialsConsistent'
  <2>1. HostOf(b) \in HostIds
    BY DEF RequestsConsistent, HostOf, HostIds, Handling
  <2>2. credentials' = [h \in HostIds |-> IF h = HostOf(b) THEN b ELSE
     credentials[h]]
    BY <2>1 DEF TypeOK
  <2>3. b \in Inits(by[b]) \/ b \in orphans
    BY DEF Inits, RequestsConsistent, Handling
  <2>4. \A a \in Attempts : Issued(a)' => credentials'[HostOf(a)'] # None
    BY <1>0, <2>1, <2>2 DEF CredentialsConsistent, Issued, TypeOK, HostOf, HostIds
  <2>5. ASSUME NEW m \in Stable
        PROVE  /\ credentials'[m] \in {None, credFile[m]} \cup Holders(m)' \cup orphans \cup mixed
               /\ \A a \in Holders(m)' : credentials'[m] \in {a} \cup orphans \cup mixed
    <3>1. Holders(m)' = {a \in Inits(m) : Issued(a) \/ a = b}
      BY <1>i DEF Holders, Issued, Inits, TypeOK
    <3>2. CASE m = HostOf(b)
      <4>1. credentials'[m] = b /\ by[b] = m
        BY <2>1, <2>2, <3>2 DEF HostOf
      <4>2. b \in orphans \/ \A a \in Inits(m) : a = b \/ b \in mixed
        BY <2>3, <4>1 DEF InitConsistent
      <4> QED
        BY <2>3, <3>1, <4>1, <4>2
    <3>3. CASE m # HostOf(b)
      <4>1. credentials'[m] = credentials[m] /\ b \notin Inits(m)
        BY <2>2, <3>3 DEF HostOf, Inits, HostIds
      <4>2. Holders(m)' = Holders(m)
        BY <3>1, <4>1 DEF Holders
      <4> QED
        BY <4>1, <4>2 DEF CredentialsConsistent
    <3> QED
      BY <3>2, <3>3
  <2> QED
    BY <1>0, <2>4, <2>5 DEF CredentialsConsistent, TypeOK
<1>6. HostIdConsistent'
  BY <1>0, <1>i DEF Inits, Holders, HostIdConsistent, InitConsistent, RequestsConsistent, HostIds, Issued,
     Handling, TypeOK
<1>7. NothingLostYet' /\ TokenNotBurned'
  BY DEF NothingLostYet, TokenNotBurned, InitConsistent, RequestsConsistent, Issued,
     Handling, TypeOK
<1> QED
  BY <1>1, <1>2, <1>3, <1>4, <1>5, <1>6, <1>7

LEMMA StatementFailsPreserves ==
    ASSUME EnrollInv, NEW b \in Attempts, StatementFails(b)
    PROVE  EnrollInv'
<1> USE EnrollmentAssumption DEF EnrollInv, StatementFails, Fault, server, request,
   disk
<1>0. \A a \in Attempts : HostOf(a)' = HostOf(a)
  BY DEF HostOf
<1>i. \A m \in Machines : Inits(m)' = Inits(m)
  BY DEF Inits, TypeOK
<1>1. TypeOK'
  BY DEF TypeOK, RequestsConsistent, InitConsistent, HostOf, Tokens, HostIds,
     Handling
<1>2. RequestsConsistent'
  BY DEF RequestsConsistent, InitConsistent, TypeOK, Tokens, Handling
<1>3. InitConsistent'
  BY <1>i DEF Inits, Holders, InitConsistent, RequestsConsistent, TypeOK, Handling
<1>4. AdmissionSound'
  BY <1>0 DEF AdmissionSound, RequestsConsistent, InitConsistent, HostIds, Issued,
     Handling, TypeOK
<1>5. CredentialsConsistent'
  BY <1>0, <1>i DEF Inits, Holders, CredentialsConsistent, AdmissionSound, RequestsConsistent,
     InitConsistent, HostIds, Issued, Handling, TypeOK
<1>6. HostIdConsistent'
  BY <1>0, <1>i DEF Inits, Holders, HostIdConsistent, InitConsistent, RequestsConsistent, HostIds, Issued,
     Handling, TypeOK
<1>7. NothingLostYet' /\ TokenNotBurned'
  BY DEF NothingLostYet, TokenNotBurned, InitConsistent, RequestsConsistent, Issued,
     Handling, TypeOK
<1> QED
  BY <1>1, <1>2, <1>3, <1>4, <1>5, <1>6, <1>7

LEMMA AbandonPreserves ==
    ASSUME EnrollInv, NEW b \in Attempts, Abandon(b)
    PROVE  EnrollInv'
<1> USE EnrollmentAssumption DEF EnrollInv, Abandon, server, request, disk
<1>0. \A a \in Attempts : HostOf(a)' = HostOf(a)
  BY DEF HostOf
<1>i. \A m \in Machines : Inits(m)' = Inits(m)
  BY DEF Inits, TypeOK
<1>1. TypeOK'
  BY DEF TypeOK, RequestsConsistent, InitConsistent, HostOf, Tokens, HostIds,
     Handling
<1>2. RequestsConsistent'
  BY DEF RequestsConsistent, InitConsistent, TypeOK, Tokens, Handling
<1>3. InitConsistent'
  BY <1>i DEF Inits, Holders, InitConsistent, RequestsConsistent, TypeOK, Handling
<1>4. AdmissionSound'
  BY <1>0 DEF AdmissionSound, RequestsConsistent, InitConsistent, HostIds, Issued,
     Handling, TypeOK
<1>5. CredentialsConsistent'
  BY <1>0, <1>i DEF Inits, Holders, CredentialsConsistent, AdmissionSound, RequestsConsistent,
     InitConsistent, HostIds, Issued, Handling, TypeOK
<1>6. HostIdConsistent'
  BY <1>0, <1>i DEF Inits, Holders, HostIdConsistent, InitConsistent, RequestsConsistent, HostIds, Issued,
     Handling, TypeOK
<1>7. NothingLostYet' /\ TokenNotBurned'
  BY DEF NothingLostYet, TokenNotBurned, InitConsistent, RequestsConsistent, Issued,
     Handling, TypeOK
<1> QED
  BY <1>1, <1>2, <1>3, <1>4, <1>5, <1>6, <1>7

LEMMA EnrollPreserves ==
    ASSUME EnrollInv, NEW n \in Machines, NEW b \in Attempts, NEW t \in Tokens,
           Enroll(n, b, t)
    PROVE  EnrollInv'
<1> USE EnrollmentAssumption DEF EnrollInv, Enroll, tables, tokenTable, disk
<1>i. \A m \in Machines : Inits(m)' = IF m = n THEN Inits(m) \cup {b} ELSE Inits(m)
  BY DEF Inits, TypeOK, RequestsConsistent, InitConsistent
<1>j. Inits(n) \subseteq Attempts /\ \A a \in Inits(n) : at[a] # "unused"
  BY DEF Inits, InitConsistent
<1>1. TypeOK'
  BY <1>j DEF TypeOK, RequestsConsistent, InitConsistent, HostOf, Tokens, HostIds,
     Handling
<1>2. RequestsConsistent'
  BY <1>j DEF RequestsConsistent, InitConsistent, TypeOK, Tokens, Handling
<1>3. InitConsistent'
  BY <1>i DEF Inits, Holders, InitConsistent, RequestsConsistent, TypeOK, Handling
<1>4. AdmissionSound'
  BY DEF HostOf, AdmissionSound, RequestsConsistent, InitConsistent, HostIds,
     Issued, Handling, TypeOK
<1>5. CredentialsConsistent'
  BY <1>i DEF Inits, Holders, HostOf, CredentialsConsistent, AdmissionSound, RequestsConsistent,
     InitConsistent, HostIds, Issued, Handling, TypeOK
<1>6. HostIdConsistent'
  <2>1. \A m \in Stable : hostMeta[m]' \in {None, m}
    BY DEF HostIdConsistent
  <2>2. ASSUME NEW m \in Machines \ Stable, ended[m]' = "ok"
        PROVE  \/ /\ hostMeta[m]' \in mixed'
                  /\ Issued(hostMeta[m])'
                  /\ HostOf(hostMeta[m])' = hostMeta[m]'
               \/ /\ Inits(m)' = {}
                  /\ hostMeta[m]' = credFile[m]'
                  /\ hostMeta[m]' \in Attempts
    <3>1. m # n /\ ended[m] = "ok" /\ Inits(m)' = Inits(m)
      BY <2>2, <1>i DEF TypeOK
    <3>2. CASE hostMeta[m] \in mixed /\ Issued(hostMeta[m]) /\ HostOf(hostMeta[m]) = hostMeta[m]
      <4>1. hostMeta[m] \in Attempts /\ hostMeta[m] # b
        BY <3>2 DEF TypeOK, Issued
      <4> QED
        BY <3>2, <4>1 DEF Issued, HostOf, TypeOK
    <3> QED
      BY <2>2, <3>1, <3>2 DEF HostIdConsistent
  <2> QED
    BY <2>1, <2>2 DEF HostIdConsistent
<1>7. NothingLostYet' /\ TokenNotBurned'
  BY DEF NothingLostYet, TokenNotBurned, InitConsistent, RequestsConsistent, Issued,
     Handling, TypeOK
<1> QED
  BY <1>1, <1>2, <1>3, <1>4, <1>5, <1>6, <1>7

LEMMA ReceiveCredentialPreserves ==
    ASSUME EnrollInv, NEW b \in Attempts, ReceiveCredential(b)
    PROVE  EnrollInv'
<1> USE EnrollmentAssumption DEF EnrollInv, ReceiveCredential, Proceed, tables,
   tokenTable, request, disk
<1>0. \A a \in Attempts : HostOf(a)' = HostOf(a)
  BY DEF HostOf
<1>i. \A m \in Machines : Inits(m)' = Inits(m)
  BY DEF Inits, TypeOK
<1>1. TypeOK'
  BY DEF TypeOK, RequestsConsistent, InitConsistent, HostOf, Tokens, HostIds,
     Handling
<1>2. RequestsConsistent'
  BY DEF RequestsConsistent, InitConsistent, TypeOK, Tokens, Handling
<1>3. InitConsistent'
  BY <1>i DEF Inits, Holders, InitConsistent, RequestsConsistent, TypeOK, Handling
<1>4. AdmissionSound'
  BY <1>0 DEF AdmissionSound, RequestsConsistent, InitConsistent, HostIds, Issued,
     Handling, TypeOK
<1>5. CredentialsConsistent'
  BY <1>0, <1>i DEF Inits, Holders, CredentialsConsistent, AdmissionSound, RequestsConsistent,
     InitConsistent, HostIds, Issued, Handling, TypeOK
<1>6. HostIdConsistent'
  BY <1>0, <1>i DEF Inits, Holders, HostIdConsistent, InitConsistent, RequestsConsistent, HostIds, Issued,
     Handling, TypeOK
<1>7. NothingLostYet' /\ TokenNotBurned'
  BY DEF NothingLostYet, TokenNotBurned, InitConsistent, RequestsConsistent, Issued,
     Handling, TypeOK
<1> QED
  BY <1>1, <1>2, <1>3, <1>4, <1>5, <1>6, <1>7

LEMMA ReceiveRefusalPreserves ==
    ASSUME EnrollInv, NEW b \in Attempts, ReceiveRefusal(b)
    PROVE  EnrollInv'
<1> USE EnrollmentAssumption DEF EnrollInv, ReceiveRefusal, EndInit, tables,
   tokenTable, request, disk
<1>0. \A a \in Attempts : HostOf(a)' = HostOf(a)
  BY DEF HostOf
<1>i. \A m \in Machines : Inits(m)' \in {Inits(m), Inits(m) \ {b}}
  BY DEF Inits, TypeOK
<1>1. TypeOK'
  BY DEF TypeOK, RequestsConsistent, InitConsistent, HostOf, Tokens, HostIds,
     Handling
<1>2. RequestsConsistent'
  BY DEF RequestsConsistent, InitConsistent, TypeOK, Tokens, Handling
<1>3. InitConsistent'
  BY <1>i DEF Inits, Holders, InitConsistent, RequestsConsistent, TypeOK, Handling
<1>4. AdmissionSound'
  BY <1>0 DEF AdmissionSound, RequestsConsistent, InitConsistent, HostIds, Issued,
     Handling, TypeOK
<1>5. CredentialsConsistent'
  BY <1>0, <1>i DEF Inits, Holders, CredentialsConsistent, AdmissionSound, RequestsConsistent,
     InitConsistent, HostIds, Issued, Handling, TypeOK
<1>6. HostIdConsistent'
  BY <1>0, <1>i DEF Inits, Holders, HostIdConsistent, InitConsistent, RequestsConsistent, HostIds, Issued,
     Handling, TypeOK
<1>7. NothingLostYet' /\ TokenNotBurned'
  BY DEF NothingLostYet, TokenNotBurned, InitConsistent, RequestsConsistent, Issued,
     Handling, TypeOK
<1> QED
  BY <1>1, <1>2, <1>3, <1>4, <1>5, <1>6, <1>7

LEMMA TimeoutPreserves ==
    ASSUME EnrollInv, NEW b \in Attempts, Timeout(b)
    PROVE  EnrollInv'
<1> USE EnrollmentAssumption DEF EnrollInv, Timeout, EndInit, Fault, tables,
   tokenTable, request, disk
<1>0. \A a \in Attempts : HostOf(a)' = HostOf(a)
  BY DEF HostOf
<1>i. \A m \in Machines : Inits(m)' \in {Inits(m), Inits(m) \ {b}}
  BY DEF Inits, TypeOK
<1>1. TypeOK'
  BY DEF TypeOK, RequestsConsistent, InitConsistent, HostOf, Tokens, HostIds,
     Handling
<1>2. RequestsConsistent'
  BY DEF RequestsConsistent, InitConsistent, TypeOK, Tokens, Handling
<1>3. InitConsistent'
  BY <1>i DEF Inits, Holders, InitConsistent, RequestsConsistent, TypeOK, Handling
<1>4. AdmissionSound'
  BY <1>0 DEF AdmissionSound, RequestsConsistent, InitConsistent, HostIds, Issued,
     Handling, TypeOK
<1>5. CredentialsConsistent'
  BY <1>0, <1>i DEF Inits, Holders, CredentialsConsistent, AdmissionSound, RequestsConsistent,
     InitConsistent, HostIds, Issued, Handling, TypeOK
<1>6. HostIdConsistent'
  BY <1>0, <1>i DEF Inits, Holders, HostIdConsistent, InitConsistent, RequestsConsistent, HostIds, Issued,
     Handling, TypeOK
<1>7. NothingLostYet' /\ TokenNotBurned'
  BY DEF NothingLostYet, TokenNotBurned, InitConsistent, RequestsConsistent, Issued,
     Handling, TypeOK
<1> QED
  BY <1>1, <1>2, <1>3, <1>4, <1>5, <1>6, <1>7

LEMMA WriteCredentialPreserves ==
    ASSUME EnrollInv, NEW b \in Attempts, WriteCredentialFile(b)
    PROVE  EnrollInv'
<1> USE EnrollmentAssumption DEF EnrollInv, WriteCredentialFile, NotWritten,
   Proceed, EndInit, Fault,
        tables, tokenTable, request
<1>0. \A a \in Attempts : HostOf(a)' = HostOf(a)
  BY DEF HostOf
<1>i. \A m \in Machines : Inits(m)' \in {Inits(m), Inits(m) \ {b}}
  BY DEF Inits, TypeOK
<1>1. TypeOK'
  BY DEF TypeOK, RequestsConsistent, InitConsistent, HostOf, Tokens, HostIds,
     Handling
<1>2. RequestsConsistent'
  BY DEF RequestsConsistent, InitConsistent, TypeOK, Tokens, Handling
<1>3. InitConsistent'
  BY <1>i DEF Inits, Holders, InitConsistent, RequestsConsistent, TypeOK, Handling
<1>4. AdmissionSound'
  BY <1>0 DEF AdmissionSound, RequestsConsistent, InitConsistent, HostIds, Issued,
     Handling, TypeOK
<1>5. CredentialsConsistent'
  BY <1>0, <1>i DEF Inits, Holders, CredentialsConsistent, AdmissionSound, RequestsConsistent,
     InitConsistent, HostIds, Issued, Handling, TypeOK
<1>6. HostIdConsistent'
  BY <1>0, <1>i DEF Inits, Holders, HostIdConsistent, InitConsistent, RequestsConsistent, HostIds, Issued,
     Handling, TypeOK
<1>7. NothingLostYet' /\ TokenNotBurned'
  BY DEF NothingLostYet, TokenNotBurned, InitConsistent, RequestsConsistent, Issued,
     Handling, TypeOK
<1> QED
  BY <1>1, <1>2, <1>3, <1>4, <1>5, <1>6, <1>7

LEMMA WriteConfigPreserves ==
    ASSUME EnrollInv, NEW b \in Attempts, WriteConfigFile(b)
    PROVE  EnrollInv'
<1> USE EnrollmentAssumption DEF EnrollInv, WriteConfigFile, NotWritten, Proceed,
   EndInit, Fault,
        tables, tokenTable, request
<1>0. \A a \in Attempts : HostOf(a)' = HostOf(a)
  BY DEF HostOf
<1>i. \A m \in Machines : Inits(m)' \in {Inits(m), Inits(m) \ {b}}
  BY DEF Inits, TypeOK
<1>1. TypeOK'
  BY DEF TypeOK, RequestsConsistent, InitConsistent, HostOf, Tokens, HostIds,
     Handling
<1>2. RequestsConsistent'
  BY DEF RequestsConsistent, InitConsistent, TypeOK, Tokens, Handling
<1>3. InitConsistent'
  BY <1>i DEF Inits, Holders, InitConsistent, RequestsConsistent, TypeOK, Handling
<1>4. AdmissionSound'
  BY <1>0 DEF AdmissionSound, RequestsConsistent, InitConsistent, HostIds, Issued,
     Handling, TypeOK
<1>5. CredentialsConsistent'
  BY <1>0, <1>i DEF Inits, Holders, CredentialsConsistent, AdmissionSound, RequestsConsistent,
     InitConsistent, HostIds, Issued, Handling, TypeOK
<1>6. HostIdConsistent'
  BY <1>0, <1>i DEF Inits, Holders, HostIdConsistent, InitConsistent, RequestsConsistent, HostIds, Issued,
     Handling, TypeOK
<1>7. NothingLostYet' /\ TokenNotBurned'
  BY DEF NothingLostYet, TokenNotBurned, InitConsistent, RequestsConsistent, Issued,
     Handling, TypeOK
<1> QED
  BY <1>1, <1>2, <1>3, <1>4, <1>5, <1>6, <1>7

LEMMA SetHostIDPreserves ==
    ASSUME EnrollInv, NEW b \in Attempts, SetHostID(b)
    PROVE  EnrollInv'
<1> USE EnrollmentAssumption DEF EnrollInv, SetHostID, EndInit, Fault, tables,
   tokenTable, request
<1>0. \A a \in Attempts : HostOf(a)' = HostOf(a)
  BY DEF HostOf
<1>i. \A m \in Machines : Inits(m)' \in {Inits(m), Inits(m) \ {b}}
  BY DEF Inits, TypeOK
<1>1. TypeOK'
  BY DEF TypeOK, RequestsConsistent, InitConsistent, HostOf, Tokens, HostIds,
     Handling
<1>2. RequestsConsistent'
  BY DEF RequestsConsistent, InitConsistent, TypeOK, Tokens, Handling
<1>3. InitConsistent'
  BY <1>i DEF Inits, Holders, InitConsistent, RequestsConsistent, TypeOK, Handling
<1>4. AdmissionSound'
  BY <1>0 DEF AdmissionSound, RequestsConsistent, InitConsistent, HostIds, Issued,
     Handling, TypeOK
<1>5. CredentialsConsistent'
  BY <1>0, <1>i DEF Inits, Holders, CredentialsConsistent, AdmissionSound, RequestsConsistent,
     InitConsistent, HostIds, Issued, Handling, TypeOK
<1>6. HostIdConsistent'
  <2> DEFINE n == by[b]
  <2>1. n \in Machines /\ at[b] = "done" /\ Issued(b) /\ b \in Inits(n)
    BY DEF InitConsistent, RequestsConsistent, Inits, Issued
  <2>2. b \in mixed \/ (Inits(n) = {b} /\ credFile[n] = b)
    BY <2>1 DEF InitConsistent, Inits
  <2>3. Inits(n)' = Inits(n) \ {b}
    BY <2>1 DEF Inits, TypeOK
  <2>4. ended[n]' \in {"ok", "failed"} /\ (ended[n]' = "ok" => hostMeta[n]' = HostOf(b))
    BY <2>1 DEF TypeOK
  <2>5. \A m \in Machines \ {n} : /\ hostMeta[m]' = hostMeta[m]
                                  /\ ended[m]' = ended[m]
    BY DEF TypeOK
  <2>6. hostMeta[n]' \in {hostMeta[n], HostOf(b)}
    BY <2>1 DEF TypeOK
  <2>7. \A m \in Stable : hostMeta[m]' \in {None, m}
    BY <2>1, <2>5, <2>6 DEF HostIdConsistent, HostOf
  <2>8. ASSUME NEW m \in Machines \ Stable, ended[m]' = "ok"
        PROVE  \/ /\ hostMeta[m]' \in mixed'
                  /\ Issued(hostMeta[m])'
                  /\ HostOf(hostMeta[m])' = hostMeta[m]'
               \/ /\ Inits(m)' = {}
                  /\ hostMeta[m]' = credFile[m]'
                  /\ hostMeta[m]' \in Attempts
    <3>1. CASE m = n
      <4>1. hostMeta[m]' = b /\ HostOf(b)' = b /\ Issued(b)'
        BY <3>1, <2>1, <2>4, <2>8 DEF HostOf, Issued
      <4> QED
        BY <3>1, <4>1, <2>2, <2>3
    <3>2. CASE m # n
      <4>1. Inits(m) = {} => Inits(m)' = {}
        BY <1>i
      <4>2. hostMeta[m]' = hostMeta[m] /\ ended[m] = "ok"
        BY <3>2, <2>5, <2>8
      <4> QED
        BY <4>1, <4>2, <1>0 DEF HostIdConsistent, Issued, TypeOK
    <3> QED
      BY <3>1, <3>2
  <2> QED
    BY <2>7, <2>8 DEF HostIdConsistent
<1>7. NothingLostYet' /\ TokenNotBurned'
  BY DEF NothingLostYet, TokenNotBurned, InitConsistent, RequestsConsistent, Issued,
     Handling, TypeOK
<1> QED
  BY <1>1, <1>2, <1>3, <1>4, <1>5, <1>6, <1>7

LEMMA KillInitPreserves ==
    ASSUME EnrollInv, NEW b \in Attempts, KillInit(b)
    PROVE  EnrollInv'
<1> USE EnrollmentAssumption DEF EnrollInv, KillInit, NotWritten, EndInit, Fault,
   tables, tokenTable, request
<1>0. \A a \in Attempts : HostOf(a)' = HostOf(a)
  BY DEF HostOf
<1>i. \A m \in Machines : Inits(m)' \in {Inits(m), Inits(m) \ {b}}
  BY DEF Inits, TypeOK
<1>1. TypeOK'
  BY DEF TypeOK, RequestsConsistent, InitConsistent, HostOf, Tokens, HostIds,
     Handling
<1>2. RequestsConsistent'
  BY DEF RequestsConsistent, InitConsistent, TypeOK, Tokens, Handling
<1>3. InitConsistent'
  BY <1>i DEF Inits, Holders, InitConsistent, RequestsConsistent, TypeOK, Handling
<1>4. AdmissionSound'
  BY <1>0 DEF AdmissionSound, RequestsConsistent, InitConsistent, HostIds, Issued,
     Handling, TypeOK
<1>5. CredentialsConsistent'
  BY <1>0, <1>i DEF Inits, Holders, CredentialsConsistent, AdmissionSound, RequestsConsistent,
     InitConsistent, HostIds, Issued, Handling, TypeOK
<1>6. HostIdConsistent'
  BY <1>0, <1>i DEF Inits, Holders, HostIdConsistent, InitConsistent, RequestsConsistent, HostIds, Issued,
     Handling, TypeOK
<1>7. NothingLostYet' /\ TokenNotBurned'
  BY DEF NothingLostYet, TokenNotBurned, InitConsistent, RequestsConsistent, Issued,
     Handling, TypeOK
<1> QED
  BY <1>1, <1>2, <1>3, <1>4, <1>5, <1>6, <1>7

LEMMA RunStopPreserves ==
    ASSUME EnrollInv, NEW n \in Machines, Run(n) \/ Stop(n)
    PROVE  EnrollInv'
<1> USE EnrollmentAssumption DEF EnrollInv, Run, Stop, tables, tokenTable, request,
   disk
<1>0. \A a \in Attempts : HostOf(a)' = HostOf(a)
  BY DEF HostOf
<1>i. \A m \in Machines : Inits(m)' = Inits(m)
  BY DEF Inits, TypeOK
<1>1. TypeOK'
  <2>1. running' \in [Machines -> BOOLEAN]
    BY Zenon DEF TypeOK
  <2> QED
    BY <2>1 DEF TypeOK
<1>2. RequestsConsistent'
  BY DEF RequestsConsistent, InitConsistent, TypeOK, Tokens, Handling
<1>3. InitConsistent'
  BY <1>i DEF Inits, Holders, InitConsistent, RequestsConsistent, TypeOK, Handling
<1>4. AdmissionSound'
  BY <1>0 DEF AdmissionSound, RequestsConsistent, InitConsistent, HostIds, Issued,
     Handling, TypeOK
<1>5. CredentialsConsistent'
  BY <1>0, <1>i DEF Inits, Holders, CredentialsConsistent, AdmissionSound, RequestsConsistent,
     InitConsistent, HostIds, Issued, Handling, TypeOK
<1>6. HostIdConsistent'
  BY <1>0, <1>i DEF Inits, Holders, HostIdConsistent, InitConsistent, RequestsConsistent, HostIds, Issued,
     Handling, TypeOK
<1>7. NothingLostYet' /\ TokenNotBurned'
  BY DEF NothingLostYet, TokenNotBurned, InitConsistent, RequestsConsistent, Issued,
     Handling, TypeOK
<1> QED
  BY <1>1, <1>2, <1>3, <1>4, <1>5, <1>6, <1>7

LEMMA StepPreserves ==
    ASSUME EnrollInv, [Next]_vars
    PROVE  EnrollInv'
<1>1. ASSUME NEW a \in Attempts, Serve(a) \/ Install(a)
      PROVE  EnrollInv'
  BY <1>1, FoundPreserves, SelectTokenPreserves, MarkUsedPreserves,
     RegisterPreserves, IssuePreserves, StatementFailsPreserves,
     AbandonPreserves, ReceiveCredentialPreserves, ReceiveRefusalPreserves,
     TimeoutPreserves, WriteCredentialPreserves, WriteConfigPreserves,
     SetHostIDPreserves, KillInitPreserves DEF Serve, Install
<1>2. ASSUME UNCHANGED vars
      PROVE  EnrollInv'
  BY <1>2 DEF vars, tokenTable, request, disk, EnrollInv, TypeOK,
     RequestsConsistent, InitConsistent, AdmissionSound, CredentialsConsistent,
     HostIdConsistent, NothingLostYet, TokenNotBurned, Issued, HostOf, Inits, Holders
<1> QED
  BY <1>1, <1>2, GenerateTokenPreserves, ExpirePreserves, EnrollPreserves,
     RunStopPreserves DEF Next

\* The inductive invariant holds in every reachable state.
THEOREM EnrollInvariant == Spec => []EnrollInv
<1>1. Init => EnrollInv
  BY InitEstablishes
<1>2. EnrollInv /\ [Next]_vars => EnrollInv'
  BY StepPreserves
<1> QED
  BY <1>1, <1>2, PTL DEF Spec

\* Tokens, hosts, credentials and the agents' files keep their types for any
\* number of tokens and machines.
THEOREM TypeTheorem == Spec => []TypeOK
<1>1. EnrollInv => TypeOK
  BY DEF EnrollInv
<1> QED
  BY <1>1, EnrollInvariant, PTL

\* Hosts are admitted and credentials stand only on tokens that were valid when
\* the request was sent and are used up.
THEOREM AdmissionSoundTheorem == Spec => []AdmissionSound
<1>1. EnrollInv => AdmissionSound
  BY DEF EnrollInv
<1> QED
  BY <1>1, EnrollInvariant, PTL

\* What init leaves on the disk is accepted by the server, unless the credential
\* there is of an init that was interrupted or that met another one.
THEOREM InstalledAcceptedTheorem == Spec => []InstalledAccepted
<1>1. EnrollInv => InstalledAccepted
  <2> SUFFICES ASSUME EnrollInv,
                      NEW m \in Machines,
                      Inits(m) = {}, Complete(m), m \in Stable \/ ended[m] = "ok"
               PROVE  \/ Validate(hostMeta[m], credFile[m])
                      \/ credentials[hostMeta[m]] \in orphans \cup mixed
    BY DEF InstalledAccepted
  <2> DEFINE c == credFile[m]
  <2>1. c \in Attempts /\ by[c] = m /\ at[c] = "done" /\ credentials[HostOf(c)] # None
    BY DEF Complete, EnrollInv, CredentialsConsistent, Issued
  <2>2. CASE m \in Stable
    <3>1. hostMeta[m] = m /\ HostOf(c) = m
      BY <2>1, <2>2 DEF EnrollInv, HostIdConsistent, HostOf, Complete
    <3>2. Holders(m) = {}
      BY DEF Holders
    <3> QED
      BY <2>1, <2>2, <3>1, <3>2 DEF EnrollInv, CredentialsConsistent, Validate
  <2>3. CASE m \notin Stable
    <3>1. \A a \in Attempts : /\ a \in HostIds
                              /\ Issued(a) /\ HostOf(a) = a => credentials[a] = a
      <4>1. ASSUME NEW a \in Attempts, Issued(a), HostOf(a) = a
            PROVE  credentials[a] = a
        <5>1. a \in HostIds /\ credentials[a] \in Attempts
          BY <4>1 DEF EnrollInv, CredentialsConsistent, TypeOK, HostIds
        <5>2. HostOf(credentials[a]) = a
          BY <4>1, <5>1, EnrollmentAssumption DEF EnrollInv, AdmissionSound
        <5> QED
          BY <5>1, <5>2, EnrollmentAssumption DEF HostOf
      <4> QED
        BY <4>1 DEF HostIds
    <3>2. CASE hostMeta[m] = c
      BY <2>1, <2>3, <3>1, <3>2 DEF HostOf, Issued, Validate
    <3>3. CASE /\ hostMeta[m] \in mixed
               /\ Issued(hostMeta[m])
               /\ HostOf(hostMeta[m]) = hostMeta[m]
      <4> DEFINE a == hostMeta[m]
      <4>1. a \in Attempts
        BY <3>3 DEF EnrollInv, TypeOK
      <4> QED
        BY <3>1, <3>3, <4>1
    <3> QED
      BY <2>3, <3>2, <3>3 DEF EnrollInv, HostIdConsistent
  <2> QED
    BY <2>2, <2>3
<1> QED
  BY <1>1, EnrollInvariant, PTL

\* Without failures no token is spent for nothing.
THEOREM TokenNotBurnedTheorem == Spec => []TokenNotBurned
<1>1. EnrollInv => TokenNotBurned
  BY DEF EnrollInv
<1> QED
  BY <1>1, EnrollInvariant, PTL
=============================================================================
