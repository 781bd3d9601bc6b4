----------------------- MODULE ConnectionTokensProofs -----------------------
(***************************************************************************)
(* ConnectionTokens for every number of connections, consents, jobs and    *)
(* tokens.  First type correctness, and that no token is in two places or  *)
(* in two exchanges.  Then, both resting on tokens being apart and each    *)
(* with an invariant of its own, that no token is lost by the server       *)
(* itself, and that a connection asks to be reauthenticated only when      *)
(* Atlassian does not accept its token.                                    *)
(***************************************************************************)
EXTENDS ConnectionTokens, TLAPS

USE TokensAssumption

\* The records the initial state is made of.
LEMMA RecordTypes == NoConn \in Conn /\ NoConsent \in Consent /\ IdleCaller \in Caller
BY DEF NoConn, Conn, NoConsent, Consent, NewConn, IdleCaller, Caller

\* The next token is one of the tokens.
LEMMA IssueType ==
    ASSUME TypeOK, Issue
    PROVE  issued' \in Tokens /\ issued' \in 0 .. MaxTokens /\ issued' = issued + 1
BY DEF Issue, TypeOK, Tokens

\* How the actions edit a connection.
LEMMA ConnEdits ==
    ASSUME NEW k \in Conn, NEW t \in 0 .. MaxTokens, NEW site \in Sites,
           NEW st \in {"active", "needs_reauth", "CLOUD_ID_NOT_FOUND", "soft_deleted"},
           NEW b \in BOOLEAN
    PROVE  /\ [k EXCEPT !.token = t] \in Conn
           /\ [k EXCEPT !.status = st] \in Conn
           /\ [k EXCEPT !.token = t, !.status = st] \in Conn
           /\ [k EXCEPT !.status = st, !.softDeletedAt = b] \in Conn
           /\ [k EXCEPT !.status = st, !.misjudged = b] \in Conn
           /\ [status |-> st, site |-> site, token |-> t, softDeletedAt |-> b,
               misjudged |-> FALSE] \in Conn
BY DEF Conn

\* How they edit a consent.
LEMMA ConsentEdits ==
    ASSUME NEW k \in Consent, NEW t \in 0 .. MaxTokens, NEW c \in Conns \cup {NewConn},
           NEW ph \in {"asked", "choosing", "done"}
    PROVE  /\ [k EXCEPT !.phase = ph] \in Consent
           /\ [k EXCEPT !.phase = ph, !.target = c] \in Consent
           /\ [k EXCEPT !.phase = ph, !.token = t] \in Consent
           /\ [NoConsent EXCEPT !.phase = ph] \in Consent
BY RecordTypes DEF Consent

\* How they edit a job at work.
LEMMA CallerEdits ==
    ASSUME NEW k \in Caller, NEW t \in 0 .. MaxTokens, NEW c \in Conns,
           NEW kind \in {"backup", "restore"}, NEW b \in BOOLEAN,
           NEW ph \in {"working", "sent", "granted", "refused"}
    PROVE  /\ [k EXCEPT !.phase = ph] \in Caller
           /\ [k EXCEPT !.phase = ph, !.token = t] \in Caller
           /\ [k EXCEPT !.phase = ph, !.fresh = t] \in Caller
           /\ [k EXCEPT !.phase = "working", !.token = 0, !.fresh = 0] \in Caller
           /\ [phase |-> "working", kind |-> kind, conn |-> c, late |-> b,
               token |-> 0, fresh |-> 0] \in Caller
<1>0. 0 \in 0 .. MaxTokens
  OBVIOUS
<1>1. [k EXCEPT !.phase = ph] \in Caller
  BY DEF Caller
<1>2. [k EXCEPT !.phase = ph, !.token = t] \in Caller
  BY DEF Caller
<1>3. [k EXCEPT !.phase = ph, !.fresh = t] \in Caller
  BY DEF Caller
<1>4. [k EXCEPT !.phase = "working", !.token = 0, !.fresh = 0] \in Caller
  BY <1>0 DEF Caller
<1>5. [phase |-> "working", kind |-> kind, conn |-> c, late |-> b,
       token |-> 0, fresh |-> 0] \in Caller
  BY <1>0 DEF Caller
<1>6. QED
  BY <1>1, <1>2, <1>3, <1>4, <1>5

\* A finished exchange leaves its job at work.
LEMMA BackToWorkType ==
    ASSUME TypeOK, NEW q \in Callers, BackToWork(q)
    PROVE  callers' \in [Callers -> Caller] /\ overtaken' \in SUBSET Callers
<1>1. [callers[q] EXCEPT !.phase = "working", !.token = 0, !.fresh = 0] \in Caller
  BY CallerEdits DEF TypeOK
<1>2. QED
  BY <1>1 DEF BackToWork, TypeOK

\* A connection gets one of the records that ConnEdits lists, and the store is
\* saved with it.
LEMMA WriteConnType ==
    ASSUME TypeOK, NEW c \in Conns, NEW k \in Conn,
           conns' = [conns EXCEPT ![c] = k]
    PROVE  /\ conns' \in [Conns -> Conn]
           /\ Save(conns') => disk' \in [conns : [Conns -> Conn],
                                         consents : [Consents -> Consent]]
BY DEF TypeOK, Save

\* A connection is created under consent s.
LEMMA FinalizeType ==
    ASSUME TypeOK, NEW s \in Consents, NEW c \in Conns, NEW site \in Sites,
           NEW t \in 0 .. MaxTokens, Finalize(s, c, site, t)
    PROVE  conns' \in [Conns -> Conn] /\ consents' \in [Consents -> Consent]
<1>1. [status |-> "active", site |-> site, token |-> t, softDeletedAt |-> FALSE,
       misjudged |-> FALSE] \in Conn
  BY ConnEdits DEF Conn
<1>2. [NoConsent EXCEPT !.phase = "done"] \in Consent
  BY RecordTypes DEF Consent
<1>3. QED
  BY <1>1, <1>2 DEF Finalize, TypeOK

\* What a consent does keeps the types.
LEMMA ConsentType ==
    ASSUME TypeOK, NEW s \in Consents,
           \/ AskConsent(s)
           \/ \E c \in Conns : Reauthenticate(s, c)
           \/ ConsentFails(s)
           \/ \E c \in Conns, site \in Sites : ConnectSite(s, c, site)
           \/ OfferSites(s)
           \/ \E c \in Conns, site \in Sites : SelectSite(s, c, site)
           \/ Reauthorize(s)
    PROVE  TypeOK'
<1>1. CASE AskConsent(s)
  BY <1>1, ConsentEdits DEF AskConsent, TypeOK
<1>2. ASSUME NEW c \in Conns, Reauthenticate(s, c)
      PROVE  TypeOK'
  BY <1>2, ConsentEdits DEF Reauthenticate, TypeOK
<1>3. CASE ConsentFails(s)
  BY <1>3, ConsentEdits DEF ConsentFails, TypeOK
<1>4. ASSUME NEW c \in Conns, NEW site \in Sites, ConnectSite(s, c, site)
      PROVE  TypeOK'
  <2>1. issued' \in Tokens /\ issued' \in 0 .. MaxTokens
    BY <1>4, IssueType DEF ConnectSite
  <2>2. conns' \in [Conns -> Conn] /\ consents' \in [Consents -> Consent]
    BY <1>4, <2>1, FinalizeType DEF ConnectSite
  <2>3. QED
    BY <1>4, <2>1, <2>2 DEF ConnectSite, TypeOK
<1>5. CASE OfferSites(s)
  <2>1. issued' \in Tokens /\ issued' \in 0 .. MaxTokens
    BY <1>5, IssueType DEF OfferSites
  <2>2. [consents[s] EXCEPT !.phase = "choosing", !.token = issued'] \in Consent
    BY <2>1, ConsentEdits DEF TypeOK
  <2>3. consents' \in [Consents -> Consent]
    BY <1>5, <2>2 DEF OfferSites, TypeOK
  <2>4. QED
    BY <1>5, <2>1, <2>3 DEF OfferSites, TypeOK
<1>6. ASSUME NEW c \in Conns, NEW site \in Sites, SelectSite(s, c, site)
      PROVE  TypeOK'
  <2>1. consents[s].token \in 0 .. MaxTokens
    BY DEF TypeOK, Consent
  <2>2. conns' \in [Conns -> Conn] /\ consents' \in [Consents -> Consent]
    BY <1>6, <2>1, FinalizeType DEF SelectSite
  <2>3. QED
    BY <1>6, <2>2 DEF SelectSite, TypeOK
<1>7. CASE Reauthorize(s)
  <2>1. issued' \in Tokens /\ issued' \in 0 .. MaxTokens
    BY <1>7, IssueType DEF Reauthorize
  <2>2. consents[s].target \in Conns
    BY <1>7 DEF Reauthorize, TypeOK, Consent, NewConn
  <2>3. [conns[consents[s].target] EXCEPT !.token = issued', !.status = "active"] \in Conn
    BY <2>1, <2>2, ConnEdits DEF TypeOK
  <2>4. conns' \in [Conns -> Conn]
    BY <1>7, <2>2, <2>3 DEF Reauthorize, TypeOK
  <2>5. consents' \in [Consents -> Consent]
    BY <1>7, ConsentEdits DEF Reauthorize, TypeOK
  <2>6. QED
    BY <1>7, <2>1, <2>4, <2>5 DEF Reauthorize, TypeOK
<1>8. QED
  BY <1>1, <1>2, <1>3, <1>4, <1>5, <1>6, <1>7

\* What an exchange consumed is a token: type correctness needs the part of the
\* invariant that says so.
LEMMA ConsumedType ==
    ASSUME TypeOK, ExchangesIssued, NEW qs \in SUBSET Callers
    PROVE  Consumed(qs) \subseteq Tokens
<1>1. ASSUME NEW q \in Callers, callers[q].phase = "granted"
      PROVE  callers[q].token \in Tokens
  BY <1>1 DEF ExchangesIssued, InFlight, TypeOK, Caller, Tokens
<1>2. QED
  BY <1>1 DEF Consumed

\* A job of either kind begins on a connection that exists.
LEMMA BeginsWork ==
    ASSUME NEW q, NEW c, BeginBackup(q, c) \/ BeginRestore(q, c)
    PROVE  Exists(c) /\ \E kind \in {"backup", "restore"} : Begin(q, c, kind)
BY DEF BeginBackup, BeginRestore, Exists

\* What a job does, with the answers it gets, keeps the types.
LEMMA CallerType ==
    ASSUME TypeOK, ExchangesIssued, NEW q \in Callers,
           \/ \E c \in Conns : BeginBackup(q, c) \/ BeginRestore(q, c)
           \/ EndWork(q)
           \/ SendRefresh(q)
           \/ Grant(q)
           \/ Refuse(q)
           \/ StoreToken(q)
           \/ MarkNeedsReauth(q)
           \/ LoseAnswer(q)
           \/ SiteNotFound(q)
    PROVE  TypeOK'
<1> DEFINE c == callers[q].conn
<1>0. /\ c \in Conns /\ conns[c] \in Conn
      /\ callers[q].token \in 0 .. MaxTokens /\ callers[q].fresh \in 0 .. MaxTokens
      /\ conns[c].token \in 0 .. MaxTokens
  BY DEF TypeOK, Caller, Conn
<1>1. ASSUME NEW d \in Conns, BeginBackup(q, d) \/ BeginRestore(q, d)
      PROVE  TypeOK'
  <2>1. PICK kind \in {"backup", "restore"} : Begin(q, d, kind)
    BY <1>1, BeginsWork
  <2>2. PICK b \in BOOLEAN : b = (kind = "backup" /\ conns[d].status = "soft_deleted")
    OBVIOUS
  <2>4. [phase |-> "working", kind |-> kind, conn |-> d, late |-> b,
         token |-> 0, fresh |-> 0] \in Caller
    BY <1>0 DEF Caller
  <2>5. callers' \in [Callers -> Caller]
    BY <2>1, <2>2, <2>4 DEF Begin, TypeOK
  <2> QED
    BY <2>1, <2>5 DEF Begin, TypeOK
<1>2. CASE EndWork(q)
  BY <1>2, RecordTypes DEF EndWork, TypeOK
<1>3. CASE SendRefresh(q)
  <2>1. [callers[q] EXCEPT !.phase = "sent", !.token = conns[c].token] \in Caller
    BY <1>0, CallerEdits DEF TypeOK
  <2>2. callers' \in [Callers -> Caller]
    BY <1>3, <2>1 DEF SendRefresh, TypeOK
  <2>3. QED
    BY <1>3, <2>2 DEF SendRefresh, TypeOK
<1>4. CASE Grant(q)
  <2>1. issued' \in Tokens /\ issued' \in 0 .. MaxTokens
    BY <1>4, IssueType DEF Grant
  <2>2. [callers[q] EXCEPT !.phase = "granted", !.fresh = issued'] \in Caller
    BY <2>1, CallerEdits DEF TypeOK
  <2>3. callers' \in [Callers -> Caller]
    BY <1>4, <2>2 DEF Grant, TypeOK
  <2>4. QED
    BY <1>4, <2>1, <2>3 DEF Grant, TypeOK
<1>5. CASE Refuse(q)
  <2>1. [callers[q] EXCEPT !.phase = "refused"] \in Caller
    BY CallerEdits DEF TypeOK
  <2>2. QED
    BY <1>5, <2>1 DEF Refuse, TypeOK
<1>6. CASE StoreToken(q)
  <2>1. [conns[c] EXCEPT !.token = callers[q].fresh] \in Conn
    BY <1>0, ConnEdits
  <2>2. conns' = [conns EXCEPT ![c] = [conns[c] EXCEPT !.token = callers[q].fresh]]
    BY <1>6 DEF StoreToken
  <2>3. QED
    BY <1>0, <1>6, <2>1, <2>2, WriteConnType, BackToWorkType DEF StoreToken, TypeOK
<1>7. CASE MarkNeedsReauth(q)
  <2> DEFINE o == q \in overtaken
  <2>a. o \in BOOLEAN
    OBVIOUS
  <2> HIDE DEF o
  <2>0. PICK b \in BOOLEAN : b = o
    BY <2>a
  <2>1. [conns[c] EXCEPT !.status = "needs_reauth", !.misjudged = b] \in Conn
    BY <1>0, ConnEdits
  <2>2. conns' = [conns EXCEPT ![c] =
                    [conns[c] EXCEPT !.status = "needs_reauth", !.misjudged = b]]
    BY <1>7, <2>0 DEF MarkNeedsReauth, o
  <2>3. QED
    BY <1>0, <1>7, <2>1, <2>2, WriteConnType, BackToWorkType DEF MarkNeedsReauth, TypeOK
<1>8. CASE LoseAnswer(q)
  <2>1. Consumed({q}) \subseteq Tokens
    BY ConsumedType
  <2>2. QED
    BY <1>8, <2>1, BackToWorkType DEF LoseAnswer, TypeOK
<1>9. CASE SiteNotFound(q)
  <2>1. [conns[c] EXCEPT !.status = "CLOUD_ID_NOT_FOUND"] \in Conn
    BY <1>0, ConnEdits
  <2>2. conns' = [conns EXCEPT ![c] = [conns[c] EXCEPT !.status = "CLOUD_ID_NOT_FOUND"]]
    BY <1>9 DEF SiteNotFound
  <2>3. QED
    BY <1>0, <1>9, <2>1, <2>2, WriteConnType DEF SiteNotFound, TypeOK
<1>10. QED
  BY <1>1, <1>2, <1>3, <1>4, <1>5, <1>6, <1>7, <1>8, <1>9

\* Every action keeps the types.
LEMMA StepType == TypeOK /\ ExchangesIssued /\ [Next]_vars => TypeOK'
<1> SUFFICES ASSUME TypeOK, ExchangesIssued, [Next]_vars
             PROVE  TypeOK'
  OBVIOUS
<1>1. ASSUME NEW c \in Conns, SoftDelete(c) \/ Restore(c)
      PROVE  TypeOK'
  <2>1. /\ [conns[c] EXCEPT !.status = "soft_deleted", !.softDeletedAt = TRUE] \in Conn
        /\ [conns[c] EXCEPT !.status = "active", !.softDeletedAt = FALSE] \in Conn
    BY ConnEdits DEF TypeOK
  <2>2. conns' \in [Conns -> Conn]
    BY <1>1, <2>1 DEF SoftDelete, Restore, TypeOK
  <2>3. QED
    BY <1>1, <2>2 DEF SoftDelete, Restore, TypeOK
<1>2. ASSUME NEW t \in Tokens, Revoke(t)
      PROVE  TypeOK'
  BY <1>2 DEF Revoke, TypeOK
<1>3. CASE Autosave
  BY <1>3 DEF Autosave, Save, TypeOK
<1>4. CASE CrashAndRestart
  BY <1>4, ConsumedType, RecordTypes DEF CrashAndRestart, TypeOK
<1>5. CASE UNCHANGED vars
  BY <1>5 DEF vars, TypeOK
<1>6. QED
  BY <1>1, <1>2, <1>3, <1>4, <1>5, ConsentType, CallerType DEF Next

-----------------------------------------------------------------------------
\* Nothing is issued at the start.
LEMMA InitInv == Init => TypeOK /\ TokensInv
<1>1. Init => TypeOK
  BY RecordTypes DEF Init, TypeOK
<1>2. ASSUME Init
      PROVE  TokensInv
  <2>1. Apart(conns, consents) /\ Apart(disk.conns, disk.consents)
    BY <1>2 DEF Init, Apart, NoConn, NoConsent, Choosing
  <2>2. \A q \in Callers : /\ callers[q].phase = "idle"
                           /\ callers[q].token = 0 /\ callers[q].fresh = 0
    BY <1>2 DEF Init, IdleCaller
  <2>3. \A q \in Callers : Used(q) = {} /\ ~InFlight(q)
    BY <2>2 DEF Used, InFlight
  <2>4. ExchangesIssued /\ ExchangesApart
    BY <2>2, <2>3 DEF ExchangesIssued, ExchangesApart
  <2>5. QED
    BY <2>1, <2>4 DEF TokensInv
<1>3. QED
  BY <1>1, <1>2

\* What is apart stays apart when more tokens are issued.
LEMMA SavedStayApart ==
    ASSUME TypeOK, TokensInv, UNCHANGED disk,
           UNCHANGED issued \/ Issue
    PROVE  Apart(disk.conns, disk.consents)'
<1>1. issued \in Nat /\ issued' \in Nat /\ issued <= issued'
  BY IssueType DEF TypeOK
<1>2. QED
  BY <1>1 DEF TokensInv, Apart, Choosing, TypeOK, Conn, Consent

\* A new token differs from all that are in use.
LEMMA FreshToken ==
    ASSUME TypeOK, TokensInv, Issue
    PROVE  /\ issued' \in 1 .. issued' /\ 1 .. issued \subseteq 1 .. issued'
           /\ issued' \notin 1 .. issued
           /\ \A c \in Conns : Exists(c) => conns[c].token # issued'
           /\ \A s \in Consents : Choosing(consents, s) => consents[s].token # issued'
           /\ \A q \in Callers : issued' \notin Used(q)
<1>1. issued \in Nat /\ issued' = issued + 1
  BY IssueType DEF TypeOK
<1>2. issued' \notin 1 .. issued /\ issued' \in 1 .. issued' /\ 1 .. issued \subseteq 1 .. issued'
  BY <1>1
<1>3. QED
  BY <1>2 DEF TokensInv, Apart, ExchangesIssued, Exists

\* Exchanges keep what they have when others act.
LEMMA ExchangesWait ==
    ASSUME TypeOK, ExchangesIssued, UNCHANGED callers,
           UNCHANGED issued \/ Issue,
           \A c \in Conns : Exists(c) => Exists(c)'
    PROVE  /\ ExchangesIssued'
           /\ \A q \in Callers : Used(q)' = Used(q) /\ InFlight(q)' = InFlight(q)
<1>1. \A q \in Callers : Used(q)' = Used(q) /\ InFlight(q)' = InFlight(q)
  BY DEF Used, InFlight
<1>2. 1 .. issued \subseteq 1 .. issued'
  BY IssueType DEF TypeOK
<1>3. ASSUME NEW q \in Callers
      PROVE  /\ callers[q].phase # "idle" => Exists(callers[q].conn)'
             /\ Used(q) \subseteq 1 .. issued'
    BY <1>2 DEF ExchangesIssued, TypeOK, Caller
<1>4. QED
  BY <1>1, <1>3 DEF ExchangesIssued

\* A connection is created with a token that nothing else holds.
LEMMA FinalizeInv ==
    ASSUME TypeOK, TokensInv, NEW s \in Consents, NEW c \in Conns,
           NEW site \in Sites, NEW t \in 1 .. issued', Finalize(s, c, site, t),
           UNCHANGED issued \/ Issue,
           \A d \in Conns : Exists(d) => conns[d].token # t,
           \A r \in Consents : Choosing(consents, r) /\ r # s => consents[r].token # t,
           \A q \in Callers : t \notin Used(q),
           UNCHANGED <<callers, disk>>
    PROVE  TokensInv'
<1>0. 1 .. issued \subseteq 1 .. issued'
  BY IssueType DEF TypeOK
<1>1. \A d \in Conns :
        /\ d # c => conns'[d] = conns[d]
        /\ d = c => conns'[d].status = "active" /\ conns'[d].token = t
  BY DEF Finalize, TypeOK
<1>2. ~Exists(c)
  BY DEF Finalize, Exists
<1>3. \A r \in Consents : Choosing(consents', r) =>
        r # s /\ Choosing(consents, r) /\ consents'[r].token = consents[r].token
  BY DEF Finalize, TypeOK, Choosing, NoConsent
<1>4. Apart(conns, consents)'
  BY <1>0, <1>1, <1>2, <1>3 DEF TokensInv, Apart, Exists
<1>5. /\ ExchangesIssued'
      /\ \A q \in Callers : Used(q)' = Used(q) /\ InFlight(q)' = InFlight(q)
  BY <1>1, ExchangesWait DEF TokensInv, Exists
<1>6. ExchangesApart'
  <2>1. \A q \in Callers, d \in Conns : Exists(d)' /\ d # callers'[q].conn =>
            conns'[d].token \notin Used(q)
    <3>1. ASSUME NEW q \in Callers, NEW d \in Conns, Exists(d)', d # callers'[q].conn, d # c
          PROVE  conns'[d].token \notin Used(q)
      BY <3>1, <1>1 DEF TokensInv, ExchangesApart, Exists
    <3>2. QED
      BY <3>1, <1>1
  <2>2. \A q \in Callers, r \in Consents : Choosing(consents', r) =>
            consents'[r].token \notin Used(q)
    BY <1>3 DEF TokensInv, ExchangesApart
  <2>3. QED
    BY <2>1, <2>2, <1>5 DEF TokensInv, ExchangesApart, Choosing
<1>7. QED
  BY <1>4, <1>5, <1>6, SavedStayApart DEF TokensInv

\* A step that neither moves a token nor creates a connection, and at most ends
\* site selections, keeps tokens apart.
LEMMA TokensStay ==
    ASSUME TypeOK, TokensInv, UNCHANGED <<callers, issued>>,
           \A c \in Conns : /\ Exists(c)' <=> Exists(c)
                            /\ conns'[c].token = conns[c].token,
           \A s \in Consents : Choosing(consents', s) =>
                Choosing(consents, s) /\ consents'[s].token = consents[s].token
    PROVE  Apart(conns, consents)' /\ ExchangesIssued' /\ ExchangesApart'
<1>1. Apart(conns, consents)'
  BY DEF TokensInv, Apart, Exists
<1>2. /\ ExchangesIssued'
      /\ \A q \in Callers : Used(q)' = Used(q) /\ InFlight(q)' = InFlight(q)
  BY ExchangesWait DEF TokensInv
<1>3. ExchangesApart'
  <2>1. \A q \in Callers, c \in Conns : Exists(c)' /\ c # callers[q].conn =>
            conns'[c].token \notin Used(q)
    BY DEF TokensInv, ExchangesApart
  <2>2. \A q \in Callers, s \in Consents : Choosing(consents', s) =>
            consents'[s].token \notin Used(q)
    BY DEF TokensInv, ExchangesApart
  <2>3. QED
    BY <1>2, <2>1, <2>2 DEF TokensInv, ExchangesApart, Choosing
<1>4. QED
  BY <1>1, <1>2, <1>3

\* What a consent does keeps tokens apart.
LEMMA ConsentInv ==
    ASSUME TypeOK, TokensInv, NEW s \in Consents,
           \/ AskConsent(s)
           \/ \E c \in Conns : Reauthenticate(s, c)
           \/ ConsentFails(s)
           \/ \E c \in Conns, site \in Sites : ConnectSite(s, c, site)
           \/ OfferSites(s)
           \/ \E c \in Conns, site \in Sites : SelectSite(s, c, site)
           \/ Reauthorize(s)
    PROVE  TokensInv'
<1>1. CASE AskConsent(s)
  BY <1>1, TokensStay, SavedStayApart DEF AskConsent, Exists, Choosing, TypeOK, TokensInv
<1>2. ASSUME NEW c \in Conns, Reauthenticate(s, c)
      PROVE  TokensInv'
  <2>1. \A r \in Consents : Choosing(consents', r) =>
            Choosing(consents, r) /\ consents'[r].token = consents[r].token
    <3>1. \A r \in Consents : r # s => consents'[r] = consents[r]
      BY <1>2 DEF Reauthenticate, TypeOK
    <3>2. consents'[s].phase = "asked"
      BY <1>2 DEF Reauthenticate, TypeOK, Consent
    <3>3. QED
      BY <3>1, <3>2 DEF Choosing
  <2>2. QED
    BY <1>2, <2>1, TokensStay, SavedStayApart DEF Reauthenticate, Exists, TokensInv
<1>3. CASE ConsentFails(s)
  BY <1>3, TokensStay, SavedStayApart DEF ConsentFails, NoConsent, Exists, Choosing, TypeOK, TokensInv
<1>4. ASSUME NEW c \in Conns, NEW site \in Sites, ConnectSite(s, c, site)
      PROVE  TokensInv'
  BY <1>4, FreshToken, FinalizeInv DEF ConnectSite
<1>5. CASE OfferSites(s)
  <2>0. Issue /\ UNCHANGED <<conns, callers, disk>>
    BY <1>5 DEF OfferSites
  <2>1. \A r \in Consents : Choosing(consents', r) =>
            \/ r = s /\ consents'[r].token = issued'
            \/ r # s /\ Choosing(consents, r) /\ consents'[r].token = consents[r].token
    BY <1>5 DEF OfferSites, TypeOK, Choosing
  <2>2. Apart(conns, consents)'
    BY <2>0, <2>1, FreshToken DEF TokensInv, Apart, Exists
  <2>3. /\ ExchangesIssued'
        /\ \A q \in Callers : Used(q)' = Used(q) /\ InFlight(q)' = InFlight(q)
    BY <2>0, ExchangesWait DEF TokensInv, Exists
  <2>4. \A q \in Callers, r \in Consents : Choosing(consents', r) =>
            consents'[r].token \notin Used(q)
    BY <2>0, <2>1, FreshToken DEF TokensInv, ExchangesApart
  <2>5. ExchangesApart'
    BY <2>0, <2>3, <2>4 DEF TokensInv, ExchangesApart, Choosing, Exists
  <2>6. QED
    BY <2>0, <2>2, <2>3, <2>5, SavedStayApart DEF TokensInv
<1>6. ASSUME NEW c \in Conns, NEW site \in Sites, SelectSite(s, c, site)
      PROVE  TokensInv'
  <2> DEFINE t == consents[s].token
  <2>1. Choosing(consents, s)
    BY <1>6 DEF SelectSite, Choosing
  <2>2. /\ t \in 1 .. issued'
        /\ \A d \in Conns : Exists(d) => conns[d].token # t
        /\ \A r \in Consents : Choosing(consents, r) /\ r # s => consents[r].token # t
        /\ \A q \in Callers : t \notin Used(q)
    BY <1>6, <2>1 DEF SelectSite, TokensInv, Apart, ExchangesApart, Exists
  <2>3. QED
    BY <1>6, <2>2, FinalizeInv DEF SelectSite
<1>7. CASE Reauthorize(s)
  <2>0. PICK c \in Conns : c = consents[s].target
    BY <1>7 DEF Reauthorize, TypeOK, Consent
  <2>1. Issue /\ UNCHANGED <<callers, disk>> /\ Exists(c)
    BY <1>7, <2>0 DEF Reauthorize
  <2>2. \A d \in Conns : /\ Exists(d)' <=> Exists(d)
                         /\ d = c => conns'[d].token = issued'
                         /\ d # c => conns'[d].token = conns[d].token
    BY <1>7, <2>0 DEF Reauthorize, Exists, TypeOK
  <2>3. \A r \in Consents : Choosing(consents', r) =>
            Choosing(consents, r) /\ consents'[r].token = consents[r].token
    BY <1>7 DEF Reauthorize, Choosing, TypeOK
  <2>4. Apart(conns, consents)'
    BY <2>1, <2>2, <2>3, FreshToken DEF TokensInv, Apart, Exists
  <2>5. /\ ExchangesIssued'
        /\ \A q \in Callers : Used(q)' = Used(q) /\ InFlight(q)' = InFlight(q)
    BY <2>1, <2>2, ExchangesWait DEF TokensInv, Exists
  <2>6. \A q \in Callers, d \in Conns : Exists(d)' /\ d # callers[q].conn =>
            conns'[d].token \notin Used(q)
    BY <2>1, <2>2, FreshToken DEF TokensInv, ExchangesApart, Exists
  <2>7. \A q \in Callers, r \in Consents : Choosing(consents', r) =>
            consents'[r].token \notin Used(q)
    BY <2>3 DEF TokensInv, ExchangesApart
  <2>8. ExchangesApart'
    BY <2>1, <2>5, <2>6, <2>7 DEF TokensInv, ExchangesApart, Choosing
  <2>9. QED
    BY <2>1, <2>4, <2>5, <2>8, SavedStayApart DEF TokensInv
<1>8. QED
  BY <1>1, <1>2, <1>3, <1>4, <1>5, <1>6, <1>7

\* A save takes what memory holds.
LEMMA SaveApart ==
    ASSUME Apart(conns, consents)', Save(conns'), UNCHANGED consents
    PROVE  Apart(disk.conns, disk.consents)'
BY DEF Save, Apart, Choosing

\* Who has no exchange under way uses no token.
LEMMA IdleHands ==
    ASSUME ExchangesIssued, NEW q \in Callers, ~InFlight(q)
    PROVE  callers[q].token = 0 /\ callers[q].fresh = 0 /\ Used(q) = {}
<1>1. callers[q].token = 0 /\ callers[q].fresh = 0
  BY DEF ExchangesIssued, InFlight
<1>2. QED
  BY <1>1 DEF Used

\* The exchange of one job changes: what its new tokens must satisfy for all
\* exchanges to stay apart.  The token of no other connection than its own
\* changes.
LEMMA OneExchange ==
    ASSUME TypeOK, TypeOK', TokensInv, NEW q \in Callers,
           UNCHANGED consents, UNCHANGED issued \/ Issue,
           \A p \in Callers : p # q => callers'[p] = callers[p],
           \A c \in Conns : Exists(c)' <=> Exists(c),
           \A c \in Conns : c # callers'[q].conn => conns'[c].token = conns[c].token,
           \A p \in Callers, c \in Conns : p # q /\ c # callers[p].conn /\ Exists(c) =>
                conns'[c].token \notin Used(p),
           callers'[q].phase # "idle" => Exists(callers'[q].conn),
           InFlight(q)' <=> callers'[q].token # 0,
           callers'[q].phase = "granted" <=> callers'[q].fresh # 0,
           \A t \in Used(q)' :
                /\ t \in 1 .. issued'
                /\ \A c \in Conns : Exists(c) /\ c # callers'[q].conn => conns[c].token # t
                /\ \A s \in Consents : Choosing(consents, s) => consents[s].token # t
                /\ \A p \in Callers : p # q => t \notin Used(p),
           \A p \in Callers : p # q /\ InFlight(p) /\ InFlight(q)' =>
                callers[p].conn # callers'[q].conn
    PROVE  ExchangesIssued' /\ ExchangesApart'
<1>0. 1 .. issued \subseteq 1 .. issued'
  BY IssueType DEF TypeOK
<1>1. \A p \in Callers : p # q => Used(p)' = Used(p) /\ InFlight(p)' = InFlight(p)
  BY DEF Used, InFlight
<1>2. \A p \in Callers : callers[p].conn \in Conns /\ callers'[p].conn \in Conns
  BY DEF TypeOK, Caller
<1>3. ExchangesIssued'
  <2>1. ASSUME NEW p \in Callers, p # q
        PROVE  /\ callers'[p].phase # "idle" => Exists(callers[p].conn)'
               /\ Used(p)' \subseteq 1 .. issued'
               /\ InFlight(p)' <=> callers'[p].token # 0
               /\ callers'[p].phase = "granted" <=> callers'[p].fresh # 0
    BY <2>1, <1>0, <1>1, <1>2 DEF TokensInv, ExchangesIssued
  <2>2. /\ callers'[q].phase # "idle" => Exists(callers[q].conn)'
        /\ Used(q)' \subseteq 1 .. issued'
    BY <1>2
  <2>3. QED
    BY <2>1, <2>2 DEF ExchangesIssued
<1>4. \A p \in Callers, c \in Conns : Exists(c)' /\ c # callers'[p].conn =>
            conns'[c].token \notin Used(p)'
  BY <1>1
<1>5. \A p \in Callers, s \in Consents : Choosing(consents', s) =>
            consents'[s].token \notin Used(p)'
  BY <1>1 DEF TokensInv, ExchangesApart, Choosing
<1>6. \A p, r \in Callers : InFlight(p)' /\ InFlight(r)' /\ p # r =>
            callers'[p].conn # callers'[r].conn /\ Used(p)' \cap Used(r)' = {}
  <2>1. ASSUME NEW p \in Callers, NEW r \in Callers, p # q, r # q, p # r,
               InFlight(p)', InFlight(r)'
        PROVE  callers'[p].conn # callers'[r].conn /\ Used(p)' \cap Used(r)' = {}
    BY <2>1, <1>1 DEF TokensInv, ExchangesApart
  <2>2. ASSUME NEW p \in Callers, p # q, InFlight(p)', InFlight(q)'
        PROVE  callers'[p].conn # callers'[q].conn /\ Used(p)' \cap Used(q)' = {}
    BY <2>2, <1>1
  <2>3. QED
    BY <2>1, <2>2
<1>7. QED
  BY <1>3, <1>4, <1>5, <1>6 DEF ExchangesApart, Choosing

\* A job that sends nothing and holds no answer disturbs no exchange.
LEMMA EndExchange ==
    ASSUME TypeOK, TypeOK', TokensInv, NEW q \in Callers, NEW k \in Caller,
           callers' = [callers EXCEPT ![q] = k],
           k.phase \in {"idle", "working"}, k.token = 0, k.fresh = 0,
           k.phase = "working" => Exists(k.conn),
           UNCHANGED <<consents, issued>>,
           \A c \in Conns : /\ Exists(c)' <=> Exists(c)
                            /\ conns'[c].token = conns[c].token
    PROVE  Apart(conns, consents)' /\ ExchangesIssued' /\ ExchangesApart'
<1>1. callers'[q] = k /\ \A p \in Callers : p # q => callers'[p] = callers[p]
  BY DEF TypeOK
<1>2. ~InFlight(q)' /\ Used(q)' = {}
  BY <1>1 DEF InFlight, Used
<1>3. \A p \in Callers, c \in Conns : c # callers[p].conn /\ Exists(c) =>
            conns'[c].token \notin Used(p)
  BY DEF TokensInv, ExchangesApart
<1>4. ExchangesIssued' /\ ExchangesApart'
  BY <1>1, <1>2, <1>3, OneExchange
<1>5. Apart(conns, consents)'
  BY DEF TokensInv, Apart, Exists, Choosing
<1>6. QED
  BY <1>4, <1>5

\* What a job does, with the answers it gets, keeps tokens apart.
LEMMA CallerInv ==
    ASSUME TypeOK, TypeOK', TokensInv, NEW q \in Callers,
           \/ \E c \in Conns : BeginBackup(q, c) \/ BeginRestore(q, c)
           \/ EndWork(q)
           \/ SendRefresh(q)
           \/ Grant(q)
           \/ Refuse(q)
           \/ StoreToken(q)
           \/ MarkNeedsReauth(q)
           \/ LoseAnswer(q)
           \/ SiteNotFound(q)
    PROVE  TokensInv'
<1> DEFINE done == [callers[q] EXCEPT !.phase = "working", !.token = 0, !.fresh = 0]
<1>a. PICK c \in Conns : c = callers[q].conn
  BY DEF TypeOK, Caller
<1>b. /\ done \in Caller /\ done.phase = "working" /\ done.conn = c
      /\ done.token = 0 /\ done.fresh = 0
  <2>1. callers[q] \in Caller /\ 0 \in 0 .. MaxTokens
    BY DEF TypeOK
  <2>2. done \in Caller
    BY <2>1, CallerEdits
  <2>3. QED
    BY <1>a, <2>1, <2>2 DEF Caller
<1> HIDE DEF done
<1>1. ASSUME NEW d \in Conns, BeginBackup(q, d) \/ BeginRestore(q, d)
      PROVE  TokensInv'
  <2>0. Exists(d)
    BY <1>1, BeginsWork
  <2>1. PICK kind \in {"backup", "restore"} : Begin(q, d, kind)
    BY <1>1, BeginsWork
  <2>2. PICK b \in BOOLEAN : b = (kind = "backup" /\ conns[d].status = "soft_deleted")
    OBVIOUS
  <2> DEFINE k == [phase |-> "working", kind |-> kind, conn |-> d, late |-> b,
                   token |-> 0, fresh |-> 0]
  <2>3. k \in Caller /\ k.phase = "working" /\ k.conn = d /\ k.token = 0 /\ k.fresh = 0
    BY DEF Caller
  <2>4. callers' = [callers EXCEPT ![q] = k] /\ UNCHANGED <<conns, consents, issued, disk>>
    BY <2>1, <2>2 DEF Begin
  <2> HIDE DEF k
  <2>5. Apart(conns, consents)' /\ ExchangesIssued' /\ ExchangesApart'
    BY <2>0, <2>3, <2>4, EndExchange DEF Exists
  <2> QED
    BY <2>4, <2>5, SavedStayApart DEF TokensInv
<1>2. CASE EndWork(q)
  <2>1. IdleCaller.phase = "idle" /\ IdleCaller.token = 0 /\ IdleCaller.fresh = 0
    BY DEF IdleCaller
  <2>2. Apart(conns, consents)' /\ ExchangesIssued' /\ ExchangesApart'
    BY <1>2, <2>1, RecordTypes, EndExchange DEF EndWork, Exists
  <2>3. QED
    BY <1>2, <2>2, SavedStayApart DEF EndWork, TokensInv
<1>3. CASE SendRefresh(q)
  <2>1. /\ callers'[q].phase = "sent" /\ callers'[q].conn = c
        /\ callers'[q].token = conns[c].token
        /\ callers'[q].fresh = callers[q].fresh
        /\ \A p \in Callers : p # q => callers'[p] = callers[p]
    BY <1>3, <1>a DEF SendRefresh, TypeOK, Caller
  <2>2. Exists(c) /\ conns[c].token \in 1 .. issued /\ conns[c].token # 0
    BY <1>3, <1>a DEF SendRefresh, TokensInv, ExchangesIssued, Apart, Exists
  <2>3. callers[q].fresh = 0
    BY <1>3, IdleHands DEF SendRefresh, InFlight, TokensInv
  <2>4. Used(q)' = {conns[c].token} /\ InFlight(q)'
    BY <2>1, <2>2, <2>3 DEF Used, InFlight
  <2>5. \A p \in Callers : p # q /\ InFlight(p) => callers[p].conn # c
    BY <1>3, <1>a DEF SendRefresh, Refreshing
  <2>6. \A p \in Callers : p # q => conns[c].token \notin Used(p)
    BY <2>2, <2>5, IdleHands DEF TokensInv, ExchangesApart
  <2>7. /\ \A d \in Conns : Exists(d) /\ d # c => conns[d].token # conns[c].token
        /\ \A s \in Consents : Choosing(consents, s) => consents[s].token # conns[c].token
    BY <2>2 DEF TokensInv, Apart, Exists
  <2>8. \A p \in Callers, d \in Conns : d # callers[p].conn /\ Exists(d) =>
            conns[d].token \notin Used(p)
    BY DEF TokensInv, ExchangesApart
  <2>9. \A t \in Used(q)' :
            /\ t \in 1 .. issued'
            /\ \A d \in Conns : Exists(d) /\ d # c => conns[d].token # t
            /\ \A s \in Consents : Choosing(consents, s) => consents[s].token # t
            /\ \A p \in Callers : p # q => t \notin Used(p)
    BY <1>3, <2>2, <2>4, <2>6, <2>7 DEF SendRefresh
  <2>10. UNCHANGED <<conns, consents, issued, disk>>
    BY <1>3 DEF SendRefresh
  <2>11. ExchangesIssued' /\ ExchangesApart'
    BY <2>1, <2>2, <2>3, <2>4, <2>5, <2>8, <2>9, <2>10, OneExchange DEF Exists
  <2>12. Apart(conns, consents)' /\ Apart(disk.conns, disk.consents)'
    BY <2>10, SavedStayApart DEF TokensInv, Apart, Choosing
  <2>13. QED
    BY <2>11, <2>12 DEF TokensInv
<1>4. CASE Grant(q)
  <2>1. /\ callers'[q].phase = "granted" /\ callers'[q].conn = c
        /\ callers'[q].token = callers[q].token
        /\ callers'[q].fresh = issued'
        /\ \A p \in Callers : p # q => callers'[p] = callers[p]
    BY <1>4, <1>a DEF Grant, TypeOK, Caller
  <2>2. InFlight(q) /\ InFlight(q)' /\ callers[q].token # 0 /\ Exists(c)
    BY <1>4, <1>a, <2>1 DEF Grant, InFlight, TokensInv, ExchangesIssued
  <2>3. Issue /\ UNCHANGED <<conns, consents, disk>>
    BY <1>4 DEF Grant
  <2>4. issued' # 0
    BY <2>3, FreshToken
  <2>5. \A t \in Used(q)' : t \in Used(q) \/ t = issued'
    BY <2>1 DEF Used
  <2>6. \A t \in Used(q)' :
            /\ t \in 1 .. issued'
            /\ \A d \in Conns : Exists(d) /\ d # c => conns[d].token # t
            /\ \A s \in Consents : Choosing(consents, s) => consents[s].token # t
            /\ \A p \in Callers : p # q => t \notin Used(p)
    <3>1. ASSUME NEW t \in Used(q)
          PROVE  /\ t \in 1 .. issued'
                 /\ \A d \in Conns : Exists(d) /\ d # c => conns[d].token # t
                 /\ \A s \in Consents : Choosing(consents, s) => consents[s].token # t
                 /\ \A p \in Callers : p # q => t \notin Used(p)
      BY <1>a, <2>2, <2>3, FreshToken, IdleHands
         DEF TokensInv, ExchangesIssued, ExchangesApart
    <3>2. QED
      BY <2>3, <2>5, <3>1, FreshToken
  <2>7. \A p \in Callers : p # q /\ InFlight(p) => callers[p].conn # c
    BY <1>a, <2>2 DEF TokensInv, ExchangesApart
  <2>8. \A p \in Callers, d \in Conns : d # callers[p].conn /\ Exists(d) =>
            conns[d].token \notin Used(p)
    BY DEF TokensInv, ExchangesApart
  <2>9. ExchangesIssued' /\ ExchangesApart'
    BY <2>1, <2>2, <2>3, <2>4, <2>6, <2>7, <2>8, OneExchange DEF Exists
  <2>10. Apart(conns, consents)' /\ Apart(disk.conns, disk.consents)'
    BY <2>3, SavedStayApart, FreshToken DEF TokensInv, Apart, Choosing
  <2>11. QED
    BY <2>9, <2>10 DEF TokensInv
<1>5. CASE Refuse(q)
  <2>1. /\ callers'[q].phase = "refused" /\ callers'[q].conn = c
        /\ callers'[q].token = callers[q].token
        /\ callers'[q].fresh = callers[q].fresh
        /\ \A p \in Callers : p # q => callers'[p] = callers[p]
    BY <1>5, <1>a DEF Refuse, TypeOK, Caller
  <2>2. \A p \in Callers : Used(p)' = Used(p) /\ (InFlight(p)' <=> InFlight(p))
    BY <1>5, <2>1 DEF Refuse, InFlight, Used
  <2>3. ExchangesIssued'
    BY <1>5, <1>a, <2>1, <2>2 DEF Refuse, InFlight, TokensInv, ExchangesIssued, Exists
  <2>4. ExchangesApart'
    BY <1>5, <1>a, <2>1, <2>2 DEF Refuse, TokensInv, ExchangesApart, Exists, Choosing
  <2>5. Apart(conns, consents)' /\ Apart(disk.conns, disk.consents)'
    BY <1>5, SavedStayApart DEF Refuse, TokensInv, Apart, Choosing
  <2>6. QED
    BY <2>3, <2>4, <2>5 DEF TokensInv
<1>6. CASE StoreToken(q)
  <2> DEFINE t == callers[q].fresh
  <2>1. /\ callers'[q].phase = "working" /\ callers'[q].conn = c
        /\ callers'[q].token = 0 /\ callers'[q].fresh = 0
        /\ \A p \in Callers : p # q => callers'[p] = callers[p]
    BY <1>6, <1>a, <1>b DEF StoreToken, BackToWork, TypeOK, Caller
  <2>2. InFlight(q) /\ t # 0 /\ t \in Used(q) /\ Exists(c)
    BY <1>6, <1>a DEF StoreToken, InFlight, Used, TokensInv, ExchangesIssued
  <2>3. ~InFlight(q)' /\ Used(q)' = {}
    BY <2>1 DEF InFlight, Used
  <2>4. \A d \in Conns : /\ Exists(d)' <=> Exists(d)
                         /\ d = c => conns'[d].token = t
                         /\ d # c => conns'[d].token = conns[d].token
    BY <1>6, <1>a DEF StoreToken, Exists, TypeOK
  <2>5. /\ t \in 1 .. issued
        /\ \A d \in Conns : Exists(d) /\ d # c => conns[d].token # t
        /\ \A s \in Consents : Choosing(consents, s) => consents[s].token # t
        /\ \A p \in Callers : p # q => t \notin Used(p)
    BY <1>a, <2>2, IdleHands DEF TokensInv, ExchangesIssued, ExchangesApart
  <2>6. \A p \in Callers, d \in Conns : p # q /\ d # callers[p].conn /\ Exists(d) =>
            conns'[d].token \notin Used(p)
    BY <2>4, <2>5 DEF TokensInv, ExchangesApart
  <2>7. UNCHANGED <<consents, issued>> /\ Save(conns')
    BY <1>6 DEF StoreToken
  <2>8. ExchangesIssued' /\ ExchangesApart'
    BY <2>1, <2>2, <2>3, <2>4, <2>6, <2>7, OneExchange
  <2>9. Apart(conns, consents)'
    BY <2>4, <2>5, <2>7 DEF TokensInv, Apart, Exists, Choosing
  <2>10. QED
    BY <2>7, <2>8, <2>9, SaveApart DEF TokensInv
<1>7. CASE MarkNeedsReauth(q)
  <2>1. callers' = [callers EXCEPT ![q] = done]
    BY <1>7 DEF MarkNeedsReauth, BackToWork, done
  <2>2. Exists(c)
    BY <1>7, <1>a DEF MarkNeedsReauth, TokensInv, ExchangesIssued
  <2>3. \A d \in Conns : (Exists(d)' <=> Exists(d)) /\ conns'[d].token = conns[d].token
    BY <1>7, <1>a, <2>2 DEF MarkNeedsReauth, Exists, TypeOK
  <2>4. Apart(conns, consents)' /\ ExchangesIssued' /\ ExchangesApart'
    BY <1>7, <1>b, <2>1, <2>2, <2>3, EndExchange DEF MarkNeedsReauth
  <2>5. QED
    BY <1>7, <2>4, SaveApart DEF MarkNeedsReauth, TokensInv
<1>8. CASE LoseAnswer(q)
  <2>1. callers' = [callers EXCEPT ![q] = done]
    BY <1>8 DEF LoseAnswer, BackToWork, done
  <2>2. Exists(c)
    BY <1>8, <1>a DEF LoseAnswer, InFlight, TokensInv, ExchangesIssued
  <2>3. Apart(conns, consents)' /\ ExchangesIssued' /\ ExchangesApart'
    BY <1>8, <1>b, <2>1, <2>2, EndExchange DEF LoseAnswer, Exists
  <2>4. QED
    BY <1>8, <2>3, SavedStayApart DEF LoseAnswer, TokensInv
<1>9. CASE SiteNotFound(q)
  <2>1. Exists(c)
    BY <1>9, <1>a DEF SiteNotFound, TokensInv, ExchangesIssued
  <2>2. \A d \in Conns : (Exists(d)' <=> Exists(d)) /\ conns'[d].token = conns[d].token
    BY <1>9, <1>a, <2>1 DEF SiteNotFound, Exists, TypeOK
  <2>3. Apart(conns, consents)' /\ ExchangesIssued' /\ ExchangesApart'
    BY <1>9, <2>2, TokensStay DEF SiteNotFound, Choosing
  <2>4. QED
    BY <1>9, <2>3, SaveApart DEF SiteNotFound, TokensInv
<1>10. QED
  BY <1>1, <1>2, <1>3, <1>4, <1>5, <1>6, <1>7, <1>8, <1>9

\* Every action keeps the invariant.
LEMMA StepInv == TypeOK /\ TypeOK' /\ TokensInv /\ [Next]_vars => TokensInv'
<1> SUFFICES ASSUME TypeOK, TypeOK', TokensInv, [Next]_vars
             PROVE  TokensInv'
  OBVIOUS
<1>1. ASSUME NEW c \in Conns, SoftDelete(c) \/ Restore(c)
      PROVE  TokensInv'
  <2>1. UNCHANGED <<consents, callers, issued, disk>>
    BY <1>1 DEF SoftDelete, Restore
  <2>2. \A d \in Conns : (Exists(d)' <=> Exists(d)) /\ conns'[d].token = conns[d].token
    <3>1. CASE SoftDelete(c)
      BY <3>1 DEF SoftDelete, Exists, TypeOK, Conn
    <3>2. CASE Restore(c)
      BY <3>2 DEF Restore, Exists, TypeOK, Conn
    <3>3. QED
      BY <1>1, <3>1, <3>2
  <2>3. QED
    BY <2>1, <2>2, TokensStay, SavedStayApart DEF TokensInv, Choosing
<1>2. ASSUME NEW t \in Tokens, Revoke(t)
      PROVE  TokensInv'
  BY <1>2, TokensStay, SavedStayApart DEF Revoke, TokensInv, Exists, Choosing
<1>3. CASE Autosave
  <2>1. Apart(conns, consents)' /\ ExchangesIssued' /\ ExchangesApart'
    BY <1>3, TokensStay DEF Autosave, Exists, Choosing
  <2>2. Save(conns') /\ UNCHANGED consents
    BY <1>3 DEF Autosave
  <2>3. QED
    BY <2>1, <2>2, SaveApart DEF TokensInv
<1>4. CASE CrashAndRestart
  <2>1. \A q \in Callers : /\ callers'[q].phase = "idle"
                           /\ callers'[q].token = 0 /\ callers'[q].fresh = 0
    BY <1>4 DEF CrashAndRestart, IdleCaller
  <2>2. \A q \in Callers : Used(q)' = {} /\ ~InFlight(q)'
    BY <2>1 DEF Used, InFlight
  <2>3. ExchangesIssued' /\ ExchangesApart'
    BY <2>1, <2>2 DEF ExchangesIssued, ExchangesApart
  <2>4. Apart(conns, consents)' /\ Apart(disk.conns, disk.consents)'
    BY <1>4 DEF CrashAndRestart, TokensInv, Apart, Choosing
  <2>5. QED
    BY <2>3, <2>4 DEF TokensInv
<1>5. CASE UNCHANGED vars
  BY <1>5, TokensStay, SavedStayApart DEF vars, TokensInv, Exists, Choosing
<1>6. QED
  BY <1>1, <1>2, <1>3, <1>4, <1>5, ConsentInv, CallerInv DEF Next

\* The types and the invariant hold in every reachable state.
THEOREM TokensInvariant == Spec => [](TypeOK /\ TokensInv)
<1>1. TypeOK /\ TokensInv /\ [Next]_vars => (TypeOK /\ TokensInv)'
  BY StepType, StepInv DEF TokensInv
<1>2. QED
  BY InitInv, <1>1, PTL DEF Spec

\* Every variable keeps its type, whatever consents, answers, deletions and
\* crashes come in whatever order.
THEOREM TypeCorrect == Spec => []TypeOK
BY TokensInvariant, PTL

\* A refresh token is never in two exchanges, however many jobs ask for one.
THEOREM TokensExchangedOnce == Spec => []OneExchangePerToken
<1>1. TypeOK /\ TokensInv => OneExchangePerToken
  <2>1. ASSUME TokensInv, NEW p \in Callers, InFlight(p)
        PROVE  callers[p].token \in Used(p)
    BY <2>1 DEF TokensInv, ExchangesIssued, Used
  <2>2. QED
    BY <2>1 DEF OneExchangePerToken, TokensInv, ExchangesApart
<1>2. QED
  BY <1>1, TokensInvariant, PTL

\* No two connections, and no connection and site selection, share a token.
THEOREM TokensNotShared == Spec => []NoSharedToken
<1>1. TypeOK /\ TokensInv => NoSharedToken
  BY DEF NoSharedToken, TokensInv, Apart, Exists, Choosing
<1>2. QED
  BY <1>1, TokensInvariant, PTL


-----------------------------------------------------------------------------
(* Tokens kept *)

\* A token is accepted, or gone, or in an exchange that was granted.
Safe(t) == t \in valid \cup gone

Held(t) == Safe(t) \/ \E q \in Callers : callers[q].phase = "granted"
                                         /\ callers[q].token = t

KeptConns(ks) == \A c \in Conns : ks[c].status # "none" => Kept(c, ks[c].token)

KeptChoices(cs) == \A s \in Consents : Choosing(cs, s) => Held(cs[s].token)

FreshKept ==
    \A q \in Callers : callers[q].phase = "granted" => Safe(callers[q].fresh)

\* What db.json has of a connection no other connection, site selection or
\* exchange has: a crash can bring it back.
SavedApart ==
    \A c \in Conns : disk.conns[c].status # "none" =>
        /\ \A d \in Conns : Exists(d) /\ d # c => conns[d].token # disk.conns[c].token
        /\ \A s \in Consents : Choosing(consents, s) =>
                consents[s].token # disk.conns[c].token
        /\ \A q \in Callers : callers[q].conn # c => disk.conns[c].token \notin Used(q)

KeepInv ==
    /\ KeptConns(conns) /\ KeptConns(disk.conns)
    /\ KeptChoices(consents) /\ KeptChoices(disk.consents)
    /\ FreshKept /\ SavedApart

\* Atlassian does not accept the token of a connection that asks to be
\* reauthenticated and was not misjudged,
Real(ks) ==
    \A c \in Conns : ks[c].status = "needs_reauth" /\ ~ks[c].misjudged =>
        ks[c].token \notin valid

\* since an exchange is of the token its connection has, unless it was overtaken,
\* one that was overtaken finds the connection renewed, and one that was granted
\* is none of a connection marked for good reason.
AnswerReal(q) ==
    LET c == callers[q].conn
    IN  /\ q \in overtaken => InFlight(q)
        /\ InFlight(q) /\ q \notin overtaken => callers[q].token = conns[c].token
        /\ q \in overtaken => conns[c].status # "needs_reauth"
        /\ callers[q].phase = "granted" /\ conns[c].status = "needs_reauth" =>
                conns[c].misjudged
        /\ callers[q].phase = "refused" => callers[q].token \notin valid

RealInv ==
    /\ Real(conns) /\ Real(disk.conns)
    /\ \A q \in Callers : AnswerReal(q)

-----------------------------------------------------------------------------
\* A step that loses no token: what is accepted or gone stays so, and an
\* exchange that was granted goes on, or its token is gone.
NothingLost ==
    /\ valid \cup gone \subseteq valid' \cup gone'
    /\ \A q \in Callers : callers[q].phase = "granted" =>
        \/ /\ callers'[q].phase = "granted"
           /\ callers'[q].conn = callers[q].conn
           /\ callers'[q].token = callers[q].token
        \/ callers[q].token \in valid' \cup gone'

\* What was kept or held before such a step is so after it.
LEMMA StillKept ==
    ASSUME NothingLost
    PROVE  /\ \A c, t : Kept(c, t) => Kept(c, t)'
           /\ \A t : Held(t) => Held(t)'
<1>1. ASSUME NEW c, NEW t, Kept(c, t) PROVE Kept(c, t)'
  BY <1>1 DEF NothingLost, Kept
<1>2. ASSUME NEW t, Held(t) PROVE Held(t)'
  BY <1>2 DEF NothingLost, Held, Safe
<1> QED
  BY <1>1, <1>2

\* Tokens are kept by a step that loses none, if what it gives to a connection
\* or a site selection is safe, and it saves all or nothing.
LEMMA KeptNext ==
    ASSUME KeepInv, NothingLost,
           \A c \in Conns : Exists(c)' =>
                \/ Exists(c) /\ conns'[c].token = conns[c].token
                \/ conns'[c].token \in valid' \cup gone',
           \A s \in Consents : Choosing(consents', s) =>
                \/ Choosing(consents, s) /\ consents'[s].token = consents[s].token
                \/ consents'[s].token \in valid' \cup gone',
           \A q \in Callers : callers'[q].phase = "granted" =>
                /\ callers[q].phase = "granted" /\ callers'[q].fresh = callers[q].fresh,
           disk' = disk \/ (Save(conns') /\ consents' = consents)
    PROVE  /\ KeptConns(conns)' /\ KeptConns(disk.conns)'
           /\ KeptChoices(consents)' /\ KeptChoices(disk.consents)'
           /\ FreshKept'
<1>1. KeptConns(conns)'
  <2> SUFFICES ASSUME NEW c \in Conns, Exists(c)'
               PROVE  Kept(c, conns[c].token)'
    BY DEF KeptConns, Exists
  <2>1. CASE Exists(c) /\ conns'[c].token = conns[c].token
    <3> DEFINE t == conns[c].token
    <3>1. Kept(c, t)
      BY <2>1 DEF KeepInv, KeptConns, Exists
    <3> QED
      BY <2>1, <3>1 DEF Kept, NothingLost
  <2>2. CASE conns'[c].token \in valid' \cup gone'
    BY <2>2 DEF Kept
  <2> QED
    BY <2>1, <2>2
<1>2. KeptChoices(consents)'
  BY StillKept DEF KeepInv, KeptChoices, Held, Safe, Choosing
<1>3. FreshKept'
  BY DEF KeepInv, FreshKept, NothingLost, Safe
<1>4. KeptConns(disk.conns)'
  <2>1. CASE disk' = disk
    BY <2>1, StillKept DEF KeepInv, KeptConns
  <2>2. CASE Save(conns')
    BY <1>1, <2>2 DEF Save, KeptConns
  <2> QED
    BY <2>1, <2>2
<1>5. KeptChoices(disk.consents)'
  <2>1. CASE disk' = disk
    BY <2>1, StillKept DEF KeepInv, KeptChoices, Choosing
  <2>2. CASE Save(conns') /\ consents' = consents
    BY <1>2, <2>2 DEF Save, KeptChoices, Choosing
  <2> QED
    BY <2>1, <2>2
<1> QED
  BY <1>1, <1>2, <1>3, <1>4, <1>5

\* Once all is saved, tokens of db.json are apart because those in memory are.
LEMMA SavedNow ==
    ASSUME TokensInv', disk'.conns = conns'
    PROVE  SavedApart'
<1> SUFFICES ASSUME NEW c \in Conns, disk'.conns[c].status # "none"
             PROVE  /\ \A d \in Conns : Exists(d)' /\ d # c =>
                            conns'[d].token # disk'.conns[c].token
                    /\ \A s \in Consents : Choosing(consents', s) =>
                            consents'[s].token # disk'.conns[c].token
                    /\ \A q \in Callers : callers'[q].conn # c =>
                            disk'.conns[c].token \notin Used(q)'
  BY DEF SavedApart, Choosing
<1>1. Exists(c)' /\ disk'.conns[c].token = conns'[c].token
  BY DEF Exists
<1> QED
  BY <1>1 DEF TokensInv, Apart, ExchangesApart, Exists, Choosing

\* While nothing is saved they stay apart, if what connections, site selections
\* and exchanges get is new, or was in memory with them.
LEMMA SavedStays ==
    ASSUME TokensInv, SavedApart, disk' = disk,
           \A d \in Conns : Exists(d)' =>
                \/ Exists(d) /\ conns'[d].token = conns[d].token
                \/ \E s \in Consents : /\ Choosing(consents, s)
                                       /\ conns'[d].token = consents[s].token
                \/ conns'[d].token \notin 1 .. issued,
           \A s \in Consents : Choosing(consents', s) =>
                \/ Choosing(consents, s) /\ consents'[s].token = consents[s].token
                \/ consents'[s].token \notin 1 .. issued,
           \A q \in Callers :
                \/ Used(q)' = {}
                \/ /\ callers'[q].conn = callers[q].conn
                   /\ \A t \in Used(q)' :
                        \/ t \in Used(q)
                        \/ t \notin 1 .. issued
                        \/ /\ callers[q].conn \in Conns /\ Exists(callers[q].conn)
                           /\ t = conns[callers[q].conn].token
    PROVE  SavedApart'
<1> SUFFICES ASSUME NEW c \in Conns, disk.conns[c].status # "none"
             PROVE  /\ \A d \in Conns : Exists(d)' /\ d # c =>
                            conns'[d].token # disk.conns[c].token
                    /\ \A s \in Consents : Choosing(consents', s) =>
                            consents'[s].token # disk.conns[c].token
                    /\ \A q \in Callers : callers'[q].conn # c =>
                            disk.conns[c].token \notin Used(q)'
  BY DEF SavedApart, Choosing
<1>1. disk.conns[c].token \in 1 .. issued
  BY DEF TokensInv, Apart
<1>2. /\ \A d \in Conns : Exists(d) /\ d # c => conns[d].token # disk.conns[c].token
      /\ \A s \in Consents : Choosing(consents, s) =>
              consents[s].token # disk.conns[c].token
      /\ \A q \in Callers : callers[q].conn # c => disk.conns[c].token \notin Used(q)
  BY DEF SavedApart
<1>3. \A d \in Conns : Exists(d)' /\ d # c => conns'[d].token # disk.conns[c].token
  BY <1>1, <1>2
<1>4. \A s \in Consents : Choosing(consents', s) =>
          consents'[s].token # disk.conns[c].token
  BY <1>1, <1>2
<1>5. ASSUME NEW q \in Callers, callers'[q].conn # c
      PROVE  disk.conns[c].token \notin Used(q)'
  BY <1>1, <1>2, <1>5
<1> QED
  BY <1>3, <1>4, <1>5

-----------------------------------------------------------------------------
\* The token of a site selection is in no exchange, so it is accepted or gone.
LEMMA ChoiceSafe ==
    ASSUME TokensInv, KeepInv, NEW s \in Consents, Choosing(consents, s)
    PROVE  Safe(consents[s].token)
<1>1. ASSUME NEW q \in Callers, callers[q].phase = "granted"
      PROVE  callers[q].token \in Used(q)
  BY <1>1 DEF TokensInv, ExchangesIssued, InFlight, Used
<1>2. \A q \in Callers : consents[s].token \notin Used(q)
  BY DEF TokensInv, ExchangesApart
<1>3. Held(consents[s].token)
  BY DEF KeepInv, KeptChoices
<1> QED
  BY <1>1, <1>2, <1>3 DEF Held

\* A consent keeps tokens, if what it gives away is new or was its own.
LEMMA ConsentKeeps ==
    ASSUME TokensInv, KeepInv, UNCHANGED <<callers, gone, disk>>,
           valid \subseteq valid',
           \A c \in Conns : Exists(c)' =>
                \/ Exists(c) /\ conns'[c].token = conns[c].token
                \/ \E s \in Consents : /\ Choosing(consents, s)
                                       /\ conns'[c].token = consents[s].token
                \/ conns'[c].token \in valid' /\ conns'[c].token \notin 1 .. issued,
           \A s \in Consents : Choosing(consents', s) =>
                \/ Choosing(consents, s) /\ consents'[s].token = consents[s].token
                \/ consents'[s].token \in valid' /\ consents'[s].token \notin 1 .. issued
    PROVE  KeepInv'
<1>1. NothingLost
  BY DEF NothingLost
<1>2. \A c \in Conns : Exists(c)' =>
        \/ Exists(c) /\ conns'[c].token = conns[c].token
        \/ conns'[c].token \in valid' \cup gone'
  BY ChoiceSafe DEF Safe
<1>3. \A s \in Consents : Choosing(consents', s) =>
        \/ Choosing(consents, s) /\ consents'[s].token = consents[s].token
        \/ consents'[s].token \in valid' \cup gone'
  OBVIOUS
<1>4. SavedApart'
  <2>1. \A q \in Callers : Used(q)' = Used(q) /\ callers'[q].conn = callers[q].conn
    BY DEF Used
  <2> QED
    BY <2>1, SavedStays DEF KeepInv
<1> QED
  BY <1>1, <1>2, <1>3, <1>4, KeptNext DEF KeepInv

\* What a consent does keeps tokens.
LEMMA ConsentKeepInv ==
    ASSUME TypeOK, TokensInv, KeepInv, NEW s \in Consents,
           \/ AskConsent(s)
           \/ \E c \in Conns : Reauthenticate(s, c)
           \/ ConsentFails(s)
           \/ \E c \in Conns, site \in Sites : ConnectSite(s, c, site)
           \/ OfferSites(s)
           \/ \E c \in Conns, site \in Sites : SelectSite(s, c, site)
           \/ Reauthorize(s)
    PROVE  KeepInv'
<1>1. CASE AskConsent(s) \/ (\E c \in Conns : Reauthenticate(s, c)) \/ ConsentFails(s)
  <2>1. UNCHANGED <<conns, callers, valid, gone, disk>>
    BY <1>1 DEF AskConsent, Reauthenticate, ConsentFails
  <2>2. \A r \in Consents : Choosing(consents', r) =>
            Choosing(consents, r) /\ consents'[r].token = consents[r].token
    <3>1. CASE AskConsent(s)
      BY <3>1 DEF AskConsent, Choosing, TypeOK
    <3>2. ASSUME NEW c \in Conns, Reauthenticate(s, c)
          PROVE  \A r \in Consents : Choosing(consents', r) =>
                    Choosing(consents, r) /\ consents'[r].token = consents[r].token
      BY <3>2 DEF Reauthenticate, Choosing, TypeOK, Consent
    <3>3. CASE ConsentFails(s)
      BY <3>3 DEF ConsentFails, Choosing, TypeOK, NoConsent
    <3> QED
      BY <1>1, <3>1, <3>2, <3>3
  <2> QED
    BY <2>1, <2>2, ConsentKeeps DEF Exists
<1>2. ASSUME NEW c \in Conns, NEW site \in Sites, ConnectSite(s, c, site)
      PROVE  KeepInv'
  <2>1. /\ UNCHANGED <<callers, gone, disk>>
        /\ valid' = valid \cup {issued'} /\ issued' \notin 1 .. issued
    BY <1>2, FreshToken DEF ConnectSite
  <2>2. /\ conns'[c].token = issued'
        /\ \A d \in Conns \ {c} : conns'[d] = conns[d]
    BY <1>2 DEF ConnectSite, Finalize, TypeOK
  <2>3. \A r \in Consents : Choosing(consents', r) =>
            Choosing(consents, r) /\ consents'[r].token = consents[r].token
    BY <1>2 DEF ConnectSite, Finalize, TypeOK, Choosing, NoConsent
  <2> QED
    BY <2>1, <2>2, <2>3, ConsentKeeps DEF Exists
<1>3. CASE OfferSites(s)
  <2>1. /\ UNCHANGED <<conns, callers, gone, disk>>
        /\ valid' = valid \cup {issued'} /\ issued' \notin 1 .. issued
    BY <1>3, FreshToken DEF OfferSites
  <2>2. /\ consents'[s].token = issued'
        /\ \A r \in Consents \ {s} : consents'[r] = consents[r]
    BY <1>3 DEF OfferSites, TypeOK, Consent
  <2> QED
    BY <2>1, <2>2, ConsentKeeps DEF Exists, Choosing
<1>4. ASSUME NEW c \in Conns, NEW site \in Sites, SelectSite(s, c, site)
      PROVE  KeepInv'
  <2>1. UNCHANGED <<callers, valid, gone, disk>> /\ Choosing(consents, s)
    BY <1>4 DEF SelectSite, Choosing
  <2>2. /\ conns'[c].token = consents[s].token
        /\ \A d \in Conns \ {c} : conns'[d] = conns[d]
    BY <1>4 DEF SelectSite, Finalize, TypeOK
  <2>3. \A r \in Consents : Choosing(consents', r) =>
            Choosing(consents, r) /\ consents'[r].token = consents[r].token
    BY <1>4 DEF SelectSite, Finalize, TypeOK, Choosing, NoConsent
  <2>4. \A d \in Conns : Exists(d)' =>
          \/ Exists(d) /\ conns'[d].token = conns[d].token
          \/ \E r \in Consents : /\ Choosing(consents, r)
                                 /\ conns'[d].token = consents[r].token
    BY <2>1, <2>2 DEF Exists
  <2> QED
    BY <2>1, <2>3, <2>4, ConsentKeeps
<1>5. CASE Reauthorize(s)
  <2> DEFINE c == consents[s].target
  <2>1. /\ UNCHANGED <<callers, gone, disk>>
        /\ valid' = valid \cup {issued'} /\ issued' \notin 1 .. issued
    BY <1>5, FreshToken DEF Reauthorize
  <2>2. c \in Conns
    BY <1>5 DEF Reauthorize, TypeOK, Consent
  <2>3. /\ conns'[c].token = issued'
        /\ \A d \in Conns \ {c} : conns'[d] = conns[d]
    BY <1>5, <2>2 DEF Reauthorize, TypeOK, Conn
  <2>4. \A r \in Consents : Choosing(consents', r) =>
            Choosing(consents, r) /\ consents'[r].token = consents[r].token
    BY <1>5 DEF Reauthorize, TypeOK, Choosing, Consent
  <2> HIDE DEF c
  <2> QED
    BY <2>1, <2>2, <2>3, <2>4, ConsentKeeps DEF Exists
<1> QED
  BY <1>1, <1>2, <1>3, <1>4, <1>5

\* A step of a job that loses no token and is granted none, and creates no
\* connection and no site selection.
LEMMA CallerKeeps ==
    ASSUME TokensInv, TokensInv', KeepInv, NothingLost, UNCHANGED consents,
           \A c \in Conns : Exists(c)' =>
                Exists(c) /\ conns'[c].token = conns[c].token,
           \A q \in Callers : callers'[q].phase = "granted" =>
                callers[q].phase = "granted" /\ callers'[q].fresh = callers[q].fresh,
           \/ /\ disk' = disk
              /\ \A q \in Callers :
                    \/ Used(q)' = {}
                    \/ /\ callers'[q].conn = callers[q].conn
                       /\ \A t \in Used(q)' :
                            \/ t \in Used(q)
                            \/ /\ callers[q].conn \in Conns /\ Exists(callers[q].conn)
                               /\ t = conns[callers[q].conn].token
           \/ Save(conns')
    PROVE  KeepInv'
<1>1. SavedApart'
  <2>1. CASE Save(conns')
    BY <2>1, SavedNow DEF Save
  <2>2. CASE ~Save(conns')
    BY <2>2, SavedStays DEF KeepInv, Choosing
  <2> QED
    BY <2>1, <2>2
<1> QED
  BY <1>1, KeptNext DEF KeepInv, Choosing

\* Atlassian grants an exchange: the token it consumes is that of the connection
\* of the exchange, and of no other.
LEMMA GrantKeeps ==
    ASSUME TypeOK, TokensInv, TokensInv', KeepInv, NEW q \in Callers, Grant(q)
    PROVE  KeepInv'
<1> DEFINE t == callers[q].token
           c == callers[q].conn
<1>1. /\ callers[q].phase = "sent" /\ callers'[q].phase = "granted"
      /\ callers'[q].conn = c /\ callers'[q].token = t /\ callers'[q].fresh = issued'
      /\ \A p \in Callers \ {q} : callers'[p] = callers[p]
  BY DEF Grant, TypeOK, Caller
<1>2. /\ UNCHANGED <<conns, consents, gone, disk>>
      /\ valid' = (valid \ {t}) \cup {issued'}
      /\ issued' \notin 1 .. issued
  BY FreshToken DEF Grant
<1>3. t \in Used(q)
  BY <1>1 DEF TokensInv, ExchangesIssued, InFlight, Used
<1> HIDE DEF t, c
<1>4. ASSUME NEW d, NEW u, Kept(d, u), u = t => d = c
      PROVE  Kept(d, u)'
  BY <1>1, <1>2, <1>4 DEF Kept
<1>5. ASSUME NEW u, Held(u)
      PROVE  Held(u)'
  BY <1>1, <1>2, <1>5 DEF Held, Safe
<1>6. KeptConns(conns)'
  <2>1. \A d \in Conns : Exists(d) /\ conns[d].token = t => d = c
    BY <1>3 DEF TokensInv, ExchangesApart, c
  <2> QED
    BY <1>2, <1>4, <2>1 DEF KeepInv, KeptConns, Exists
<1>7. KeptConns(disk.conns)'
  <2>1. \A d \in Conns : disk.conns[d].status # "none" /\ disk.conns[d].token = t => d = c
    BY <1>3 DEF KeepInv, SavedApart, c
  <2> QED
    BY <1>2, <1>4, <2>1 DEF KeepInv, KeptConns
<1>8. KeptChoices(consents)' /\ KeptChoices(disk.consents)'
  BY <1>2, <1>5 DEF KeepInv, KeptChoices, Choosing
<1>9. FreshKept'
  <2> SUFFICES ASSUME NEW p \in Callers, callers'[p].phase = "granted"
               PROVE  callers'[p].fresh \in valid' \cup gone'
    BY DEF FreshKept, Safe
  <2>1. CASE p = q
    BY <1>1, <1>2, <2>1
  <2>2. CASE p # q
    <3>1. callers'[p] = callers[p] /\ callers[p].phase = "granted"
      BY <1>1, <2>2
    <3>2. Safe(callers[p].fresh)
      BY <3>1 DEF KeepInv, FreshKept
    <3>3. callers[p].fresh \in Used(p) /\ InFlight(p) /\ InFlight(q)
      BY <1>1, <3>1 DEF TokensInv, ExchangesIssued, InFlight, Used
    <3>4. callers[p].fresh # t
      BY <1>3, <2>2, <3>3 DEF TokensInv, ExchangesApart
    <3> QED
      BY <1>2, <3>1, <3>2, <3>4 DEF Safe
  <2> QED
    BY <2>1, <2>2
<1>10. SavedApart'
  <2>1. \A p \in Callers :
          /\ callers'[p].conn = callers[p].conn
          /\ \A u \in Used(p)' : u \in Used(p) \/ u \notin 1 .. issued
    BY <1>1, <1>2 DEF Used, t, c
  <2>2. \A d \in Conns : Exists(d)' => Exists(d) /\ conns'[d].token = conns[d].token
    BY <1>2 DEF Exists
  <2>3. \A s \in Consents : Choosing(consents', s) =>
            Choosing(consents, s) /\ consents'[s].token = consents[s].token
    BY <1>2
  <2> QED
    BY <1>2, <2>1, <2>2, <2>3, SavedStays DEF KeepInv
<1> QED
  BY <1>6, <1>7, <1>8, <1>9, <1>10 DEF KeepInv

\* The answer is stored: the new token takes the place of the one consumed.
LEMMA StoreKeeps ==
    ASSUME TypeOK, TokensInv, TokensInv', KeepInv, NEW q \in Callers, StoreToken(q)
    PROVE  KeepInv'
<1> DEFINE c == callers[q].conn
<1>1. /\ callers[q].phase = "granted" /\ c \in Conns /\ Exists(c)
      /\ callers'[q].phase = "working"
      /\ \A p \in Callers \ {q} : callers'[p] = callers[p]
  BY DEF StoreToken, BackToWork, TypeOK, Caller, TokensInv, ExchangesIssued
<1>2. /\ UNCHANGED <<consents, valid, gone>>
      /\ conns'[c].token = callers[q].fresh
      /\ \A d \in Conns \ {c} : conns'[d] = conns[d]
      /\ disk'.conns = conns' /\ disk'.consents = consents'
  BY <1>1 DEF StoreToken, Save, TypeOK, Conn
<1>3. KeptConns(conns)'
  <2> SUFFICES ASSUME NEW d \in Conns, Exists(d)'
               PROVE  Kept(d, conns[d].token)'
    BY DEF KeptConns, Exists
  <2>1. CASE d = c
    <3>1. Safe(callers[q].fresh)
      BY <1>1 DEF KeepInv, FreshKept
    <3> QED
      BY <1>2, <2>1, <3>1 DEF Safe, Kept
  <2>2. CASE d # c
    <3>1. conns'[d] = conns[d] /\ Kept(d, conns[d].token)
      BY <1>2, <2>2 DEF KeepInv, KeptConns, Exists
    <3>2. ASSUME NEW p \in Callers, callers[p].phase = "granted",
                 callers[p].conn = d
          PROVE  callers'[p] = callers[p]
      BY <1>1, <2>2, <3>2
    <3> QED
      BY <1>2, <3>1, <3>2 DEF Kept
  <2> QED
    BY <2>1, <2>2
<1>4. KeptChoices(consents)'
  BY <1>2, ChoiceSafe DEF KeptChoices, Held, Safe, Choosing
<1>5. KeptConns(disk.conns)' /\ KeptChoices(disk.consents)'
  BY <1>2, <1>3, <1>4 DEF KeptConns, KeptChoices, Choosing
<1>6. FreshKept'
  <2> SUFFICES ASSUME NEW p \in Callers, callers'[p].phase = "granted"
               PROVE  Safe(callers[p].fresh)'
    BY DEF FreshKept
  <2>1. callers'[p] = callers[p]
    BY <1>1
  <2> QED
    BY <1>2, <2>1 DEF KeepInv, FreshKept, Safe
<1>7. SavedApart'
  BY <1>2, SavedNow
<1> QED
  BY <1>3, <1>4, <1>5, <1>6, <1>7 DEF KeepInv

\* What a job does, with the answers it gets, keeps tokens.
LEMMA CallerKeepInv ==
    ASSUME TypeOK, TokensInv, TokensInv', KeepInv, NEW q \in Callers,
           \/ \E c \in Conns : BeginBackup(q, c) \/ BeginRestore(q, c)
           \/ EndWork(q)
           \/ SendRefresh(q)
           \/ Grant(q)
           \/ Refuse(q)
           \/ StoreToken(q)
           \/ MarkNeedsReauth(q)
           \/ LoseAnswer(q)
           \/ SiteNotFound(q)
    PROVE  KeepInv'
<1> DEFINE k == callers[q].conn
<1>0. /\ k \in Conns /\ conns[k] \in Conn
      /\ callers[q].phase # "idle" => Exists(k)
      /\ callers[q].phase = "working" => callers[q].token = 0 /\ callers[q].fresh = 0
      /\ callers[q].phase # "granted" => callers[q].fresh = 0
  BY DEF TypeOK, Caller, TokensInv, ExchangesIssued, InFlight
<1>1. ASSUME \/ \E c \in Conns : BeginBackup(q, c) \/ BeginRestore(q, c)
             \/ EndWork(q)
      PROVE  KeepInv'
  <2>1. /\ UNCHANGED <<conns, consents, valid, gone, disk>>
        /\ callers[q].phase \in {"idle", "working"}
        /\ callers'[q].phase \in {"idle", "working"}
        /\ callers'[q].token = 0 /\ callers'[q].fresh = 0
        /\ \A p \in Callers \ {q} : callers'[p] = callers[p]
    BY <1>1, BeginsWork DEF Begin, EndWork, IdleCaller, TypeOK
  <2>2. NothingLost
    BY <2>1 DEF NothingLost
  <2>3. \A p \in Callers :
          \/ Used(p)' = {}
          \/ callers'[p].conn = callers[p].conn /\ Used(p)' = Used(p)
    BY <2>1 DEF Used
  <2> QED
    BY <2>1, <2>2, <2>3, CallerKeeps DEF Exists
<1>2. CASE SendRefresh(q) \/ Refuse(q)
  <2>1. /\ UNCHANGED <<conns, consents, valid, gone, disk>>
        /\ callers[q].phase \in {"working", "sent"}
        /\ callers'[q].phase \in {"sent", "refused"}
        /\ callers'[q].conn = k /\ callers'[q].fresh = callers[q].fresh
        /\ callers'[q].token \in {callers[q].token, conns[k].token}
        /\ \A p \in Callers \ {q} : callers'[p] = callers[p]
    BY <1>2 DEF SendRefresh, Refuse, TypeOK, Caller
  <2>2. NothingLost
    BY <2>1 DEF NothingLost
  <2>3. \A p \in Callers :
          /\ callers'[p].conn = callers[p].conn
          /\ \A t \in Used(p)' :
                t \in Used(p) \/ (p = q /\ t = conns[k].token)
    BY <2>1 DEF Used
  <2>4. Exists(k)
    BY <1>0, <2>1
  <2> QED
    BY <1>0, <2>1, <2>2, <2>3, <2>4, CallerKeeps DEF Exists
<1>3. CASE MarkNeedsReauth(q) \/ SiteNotFound(q)
  <2>1. /\ UNCHANGED <<consents, valid, gone>> /\ Save(conns')
        /\ callers[q].phase \in {"refused", "working"}
        /\ callers'[q].phase = "working"
        /\ \A p \in Callers \ {q} : callers'[p] = callers[p]
    <3>1. CASE MarkNeedsReauth(q)
      BY <3>1 DEF MarkNeedsReauth, BackToWork, TypeOK, Caller
    <3>2. CASE SiteNotFound(q)
      BY <3>2 DEF SiteNotFound
    <3> QED
      BY <1>3, <3>1, <3>2
  <2>2. NothingLost
    BY <2>1 DEF NothingLost
  <2>3. \A d \in Conns : Exists(d)' => Exists(d) /\ conns'[d].token = conns[d].token
    BY <1>0, <1>3, <2>1
       DEF MarkNeedsReauth, SiteNotFound, TypeOK, Conn, Exists
  <2> QED
    BY <2>1, <2>2, <2>3, CallerKeeps
<1>4. CASE LoseAnswer(q)
  <2>1. /\ UNCHANGED <<conns, consents, valid, disk>>
        /\ gone' = gone \cup Consumed({q})
        /\ callers'[q].phase = "working"
        /\ callers'[q].token = 0 /\ callers'[q].fresh = 0
        /\ \A p \in Callers \ {q} : callers'[p] = callers[p]
    BY <1>4 DEF LoseAnswer, BackToWork, TypeOK, Caller
  <2>2. callers[q].phase = "granted" => callers[q].token \in Consumed({q})
    BY DEF Consumed
  <2>3. NothingLost
    BY <2>1, <2>2 DEF NothingLost
  <2>4. \A p \in Callers :
          \/ Used(p)' = {}
          \/ callers'[p].conn = callers[p].conn /\ Used(p)' = Used(p)
    BY <2>1 DEF Used
  <2> QED
    BY <2>1, <2>3, <2>4, CallerKeeps DEF Exists
<1> QED
  BY <1>1, <1>2, <1>3, <1>4, GrantKeeps, StoreKeeps

-----------------------------------------------------------------------------
\* No token is lost at first,
LEMMA KeepInit == Init => KeepInv
<1> SUFFICES ASSUME Init PROVE KeepInv
  OBVIOUS
<1>1. /\ \A c \in Conns : conns[c].status = "none" /\ disk.conns[c].status = "none"
      /\ \A s \in Consents : ~Choosing(consents, s) /\ ~Choosing(disk.consents, s)
      /\ \A q \in Callers : callers[q].phase = "idle"
  BY DEF Init, NoConn, NoConsent, IdleCaller, Choosing
<1> QED
  BY <1>1 DEF KeepInv, KeptConns, KeptChoices, FreshKept, SavedApart

\* nor in any step.
LEMMA KeepNext ==
    TypeOK /\ TokensInv /\ TokensInv' /\ KeepInv /\ [Next]_vars => KeepInv'
<1> SUFFICES ASSUME TypeOK, TokensInv, TokensInv', KeepInv, [Next]_vars
             PROVE  KeepInv'
  OBVIOUS
<1>1. ASSUME NEW c \in Conns, SoftDelete(c) \/ Restore(c)
      PROVE  KeepInv'
  <2>1. UNCHANGED <<consents, callers, issued, valid, gone, disk>>
    BY <1>1 DEF SoftDelete, Restore
  <2>2. \A d \in Conns : Exists(d)' => Exists(d) /\ conns'[d].token = conns[d].token
    <3>1. CASE SoftDelete(c)
      BY <3>1 DEF SoftDelete, Exists, TypeOK, Conn
    <3>2. CASE Restore(c)
      BY <3>2 DEF Restore, Exists, TypeOK, Conn
    <3> QED
      BY <1>1, <3>1, <3>2
  <2> QED
    BY <2>1, <2>2, ConsentKeeps
<1>2. ASSUME NEW t \in Tokens, Revoke(t)
      PROVE  KeepInv'
  <2>1. /\ UNCHANGED <<conns, consents, callers, disk>>
        /\ valid \cup gone \subseteq valid' \cup gone'
    BY <1>2 DEF Revoke
  <2>2. NothingLost
    BY <2>1 DEF NothingLost
  <2>3. \A q \in Callers : callers'[q].conn = callers[q].conn /\ Used(q)' = Used(q)
    BY <2>1 DEF Used
  <2> QED
    BY <2>1, <2>2, <2>3, CallerKeeps DEF Exists
<1>3. CASE Autosave
  <2>1. /\ UNCHANGED <<conns, consents, callers, valid, gone>> /\ Save(conns')
    BY <1>3 DEF Autosave
  <2>2. NothingLost
    BY <2>1 DEF NothingLost
  <2> QED
    BY <2>1, <2>2, CallerKeeps DEF Exists
<1>4. CASE CrashAndRestart
  <2>1. /\ conns' = disk.conns /\ consents' = disk.consents
        /\ disk' = disk /\ valid' = valid
        /\ gone' = gone \cup Consumed(Callers)
        /\ \A q \in Callers : callers'[q].phase = "idle"
    BY <1>4 DEF CrashAndRestart, IdleCaller
  <2>2. \A q \in Callers : callers[q].phase = "granted" =>
            callers[q].token \in Consumed(Callers)
    BY DEF Consumed
  <2>3. NothingLost
    BY <2>1, <2>2 DEF NothingLost
  <2>4. KeptConns(disk.conns)' /\ KeptChoices(disk.consents)'
    BY <2>1, <2>3, StillKept DEF KeepInv, KeptConns, KeptChoices, Choosing
  <2>5. KeptConns(conns)' /\ KeptChoices(consents)'
    BY <2>1, <2>4 DEF KeptConns, KeptChoices, Choosing
  <2>6. FreshKept' /\ SavedApart'
    BY <2>1, SavedNow DEF FreshKept
  <2> QED
    BY <2>4, <2>5, <2>6 DEF KeepInv
<1>5. CASE UNCHANGED vars
  <2>1. NothingLost /\ \A q \in Callers : Used(q)' = Used(q)
    BY <1>5 DEF vars, NothingLost, Used
  <2> QED
    BY <1>5, <2>1, CallerKeeps DEF vars, Exists
<1> QED
  BY <1>1, <1>2, <1>3, <1>4, <1>5, ConsentKeepInv, CallerKeepInv DEF Next

-----------------------------------------------------------------------------
\* No step accepts a token anew that was issued before.
Onward == \A t \in valid' : t \in valid \/ t \notin 1 .. issued

\* A step keeps the status needs_reauth true, if it gives it to nobody who has
\* an accepted token.
LEMMA RealStays ==
    ASSUME TokensInv, RealInv, Onward,
           \A c \in Conns : conns'[c].status = "needs_reauth" /\ ~conns'[c].misjudged =>
                \/ /\ conns[c].status = "needs_reauth" /\ ~conns[c].misjudged
                   /\ conns'[c].token = conns[c].token
                \/ conns'[c].token \notin valid',
           disk' = disk \/ disk'.conns = conns'
    PROVE  Real(conns)' /\ Real(disk.conns)'
<1>1. Real(conns)'
  <2> SUFFICES ASSUME NEW c \in Conns, conns'[c].status = "needs_reauth",
                      ~conns'[c].misjudged
               PROVE  conns'[c].token \notin valid'
    BY DEF Real
  <2>1. CASE /\ conns[c].status = "needs_reauth" /\ ~conns[c].misjudged
             /\ conns'[c].token = conns[c].token
    <3>1. conns[c].token \notin valid /\ conns[c].token \in 1 .. issued
      BY <2>1 DEF RealInv, Real, TokensInv, Apart
    <3> QED
      BY <2>1, <3>1 DEF Onward
  <2> QED
    BY <2>1
<1>2. Real(disk.conns)'
  <2>1. CASE disk' = disk
    <3> SUFFICES ASSUME NEW c \in Conns, disk.conns[c].status = "needs_reauth",
                        ~disk.conns[c].misjudged
                 PROVE  disk.conns[c].token \notin valid'
      BY <2>1 DEF Real
    <3>1. disk.conns[c].token \notin valid /\ disk.conns[c].token \in 1 .. issued
      BY DEF RealInv, Real, TokensInv, Apart
    <3> QED
      BY <3>1 DEF Onward
  <2>2. CASE disk'.conns = conns'
    BY <1>1, <2>2 DEF Real
  <2> QED
    BY <2>1, <2>2
<1> QED
  BY <1>1, <1>2

\* An exchange keeps its truth while others act, if they leave its connection
\* alone or overtake it.
LEMMA AnswerStays ==
    ASSUME TokensInv, RealInv, Onward, NEW q \in Callers, callers'[q] = callers[q],
           q \in overtaken' => InFlight(q),
           InFlight(q) =>
              LET c == callers[q].conn
              IN  \/ q \in overtaken' /\ conns'[c].status # "needs_reauth"
                  \/ /\ q \in overtaken' <=> q \in overtaken
                     /\ conns'[c].token = conns[c].token
                     /\ conns'[c].status = "needs_reauth" =>
                            /\ conns[c].status = "needs_reauth"
                            /\ conns'[c].misjudged = conns[c].misjudged
    PROVE  AnswerReal(q)'
<1> DEFINE c == callers[q].conn
<1>1. AnswerReal(q)
  BY DEF RealInv
<1>2. InFlight(q) => callers[q].token \in 1 .. issued
  BY DEF TokensInv, ExchangesIssued, Used
<1>3. ASSUME InFlight(q), q \notin overtaken'
      PROVE  callers'[q].token = conns'[c].token
  BY <1>1, <1>3 DEF AnswerReal
<1>4. ASSUME q \in overtaken'
      PROVE  conns'[c].status # "needs_reauth"
  BY <1>1, <1>4 DEF AnswerReal
<1>5. ASSUME callers[q].phase = "granted", conns'[c].status = "needs_reauth"
      PROVE  conns'[c].misjudged
  <2>1. InFlight(q)
    BY <1>5 DEF InFlight
  <2> QED
    BY <1>1, <1>5, <2>1 DEF AnswerReal
<1>6. ASSUME callers[q].phase = "refused"
      PROVE  callers'[q].token \notin valid'
  BY <1>1, <1>2, <1>6 DEF AnswerReal, Onward, InFlight
<1> QED
  BY <1>3, <1>4, <1>5, <1>6 DEF AnswerReal, InFlight

\* An exchange is of a connection that exists, and the only one of it.
LEMMA OnlyExchange ==
    ASSUME TypeOK, TokensInv, NEW q \in Callers, InFlight(q)
    PROVE  /\ callers[q].conn \in Conns /\ Exists(callers[q].conn)
           /\ \A p \in Callers \ {q} : InFlight(p) => callers[p].conn # callers[q].conn
BY DEF TypeOK, Caller, TokensInv, ExchangesIssued, ExchangesApart, InFlight

\* What a consent does gives needs_reauth to nobody.
LEMMA ConsentReal ==
    ASSUME TypeOK, TokensInv, RealInv, NEW s \in Consents,
           \/ AskConsent(s)
           \/ \E c \in Conns : Reauthenticate(s, c)
           \/ ConsentFails(s)
           \/ \E c \in Conns, site \in Sites : ConnectSite(s, c, site)
           \/ OfferSites(s)
           \/ \E c \in Conns, site \in Sites : SelectSite(s, c, site)
           \/ Reauthorize(s)
    PROVE  RealInv'
<1>0. ASSUME Onward, UNCHANGED <<callers, disk>>,
             \A c \in Conns : conns'[c] = conns[c] \/ conns'[c].status = "active",
             \A q \in Callers : q \in overtaken' => InFlight(q),
             \A q \in Callers : InFlight(q) =>
                LET c == callers[q].conn
                IN  \/ conns'[c] = conns[c] /\ (q \in overtaken' <=> q \in overtaken)
                    \/ conns'[c].status = "active" /\ q \in overtaken'
      PROVE  RealInv'
  <2>1. Real(conns)' /\ Real(disk.conns)'
    BY <1>0, RealStays
  <2>2. ASSUME NEW q \in Callers
        PROVE  AnswerReal(q)'
    BY <1>0, AnswerStays
  <2> QED
    BY <2>1, <2>2 DEF RealInv
<1>a. \A q \in Callers : q \in overtaken => InFlight(q)
  BY DEF RealInv, AnswerReal
<1>b. \A q \in Callers : InFlight(q) => callers[q].conn \in Conns /\ Exists(callers[q].conn)
  BY OnlyExchange
<1>1. CASE AskConsent(s) \/ (\E c \in Conns : Reauthenticate(s, c)) \/ ConsentFails(s)
  <2>1. UNCHANGED <<conns, callers, valid, disk, overtaken>>
    BY <1>1 DEF AskConsent, Reauthenticate, ConsentFails
  <2>2. Onward
    BY <2>1 DEF Onward
  <2> QED
    BY <1>0, <1>a, <2>1, <2>2
<1>2. ASSUME NEW c \in Conns, NEW site \in Sites,
             ConnectSite(s, c, site) \/ SelectSite(s, c, site)
      PROVE  RealInv'
  <2>1. /\ UNCHANGED <<callers, disk, overtaken>>
        /\ ~Exists(c) /\ conns'[c].status = "active"
        /\ \A d \in Conns \ {c} : conns'[d] = conns[d]
    <3>1. CASE ConnectSite(s, c, site)
      BY <3>1 DEF ConnectSite, Finalize, Exists, TypeOK
    <3>2. CASE SelectSite(s, c, site)
      BY <3>2 DEF SelectSite, Finalize, Exists, TypeOK
    <3> QED
      BY <1>2, <3>1, <3>2
  <2>2. Onward
    <3>1. CASE ConnectSite(s, c, site)
      BY <3>1, FreshToken DEF ConnectSite, Onward
    <3>2. CASE SelectSite(s, c, site)
      BY <3>2 DEF SelectSite, Onward
    <3> QED
      BY <1>2, <3>1, <3>2
  <2>3. \A q \in Callers : InFlight(q) => conns'[callers[q].conn] = conns[callers[q].conn]
    BY <1>b, <2>1
  <2> QED
    BY <1>0, <1>a, <2>1, <2>2, <2>3
<1>3. CASE OfferSites(s)
  <2>1. UNCHANGED <<conns, callers, disk, overtaken>>
    BY <1>3 DEF OfferSites
  <2>2. Onward
    BY <1>3, FreshToken DEF OfferSites, Onward
  <2> QED
    BY <1>0, <1>a, <2>1, <2>2
<1>4. CASE Reauthorize(s)
  <2> DEFINE c == consents[s].target
  <2>0. c \in Conns
    BY <1>4 DEF Reauthorize, TypeOK, Consent
  <2>1. /\ UNCHANGED <<callers, disk>>
        /\ conns'[c].status = "active"
        /\ \A d \in Conns \ {c} : conns'[d] = conns[d]
    BY <1>4, <2>0 DEF Reauthorize, TypeOK, Conn
  <2>2. Onward
    BY <1>4, FreshToken DEF Reauthorize, Onward
  <2>3. overtaken' = overtaken \cup {q \in Callers : InFlight(q) /\ callers[q].conn = c}
    BY <1>4 DEF Reauthorize
  <2> HIDE DEF c
  <2>4. \A q \in Callers : q \in overtaken' => InFlight(q)
    BY <1>a, <2>3
  <2>5. ASSUME NEW q \in Callers, InFlight(q), callers[q].conn = c
        PROVE  conns'[callers[q].conn].status = "active" /\ q \in overtaken'
    BY <2>1, <2>3, <2>5
  <2>6. ASSUME NEW q \in Callers, InFlight(q), callers[q].conn # c
        PROVE  /\ conns'[callers[q].conn] = conns[callers[q].conn]
               /\ q \in overtaken' <=> q \in overtaken
    BY <1>b, <2>1, <2>3, <2>6
  <2> QED
    BY <1>0, <2>1, <2>2, <2>4, <2>5, <2>6
<1> QED
  BY <1>1, <1>2, <1>3, <1>4

\* The answers of the others stay true while a job moves on, if it leaves their
\* connections alone.
LEMMA OthersReal ==
    ASSUME TypeOK, TokensInv, RealInv, Onward, NEW q \in Callers,
           \A p \in Callers \ {q} : callers'[p] = callers[p],
           \A p \in Callers \ {q} : p \in overtaken' <=> p \in overtaken,
           \A c \in Conns :
                \/ conns'[c] = conns[c]
                \/ /\ c = callers[q].conn
                   /\ \/ InFlight(q)
                      \/ /\ conns'[c].token = conns[c].token
                         /\ conns'[c].status # "needs_reauth",
           NEW p \in Callers, p # q
    PROVE  AnswerReal(p)'
<1> DEFINE c == callers[p].conn
<1>1. ASSUME InFlight(p)
      PROVE  /\ conns'[c].token = conns[c].token
             /\ conns'[c].status = "needs_reauth" =>
                    /\ conns[c].status = "needs_reauth"
                    /\ conns'[c].misjudged = conns[c].misjudged
  <2>1. c \in Conns
    BY <1>1, OnlyExchange
  <2>2. InFlight(q) => callers[q].conn # c
    BY <1>1, OnlyExchange
  <2> QED
    BY <2>1, <2>2
<1>2. p \in overtaken' => InFlight(p)
  BY DEF RealInv, AnswerReal
<1>3. callers'[p] = callers[p] /\ (p \in overtaken' <=> p \in overtaken)
  OBVIOUS
<1> QED
  BY <1>1, <1>2, <1>3, AnswerStays

\* What a job does with the answers it gets: needs_reauth is written only when
\* the token that was refused is the one the connection has, or it was renewed.
LEMMA CallerReal ==
    ASSUME TypeOK, TokensInv, RealInv, NEW q \in Callers,
           \/ \E c \in Conns : BeginBackup(q, c) \/ BeginRestore(q, c)
           \/ EndWork(q)
           \/ SendRefresh(q)
           \/ Grant(q)
           \/ Refuse(q)
           \/ StoreToken(q)
           \/ MarkNeedsReauth(q)
           \/ LoseAnswer(q)
           \/ SiteNotFound(q)
    PROVE  RealInv'
<1> DEFINE k == callers[q].conn
<1>0. /\ k \in Conns /\ AnswerReal(q)
      /\ InFlight(q) => Exists(k)
      /\ callers[q].phase # "idle" => Exists(k)
  BY DEF TypeOK, Caller, RealInv, TokensInv, ExchangesIssued, InFlight
<1>a. callers[q].phase \in {"idle", "working"} => q \notin overtaken
  BY <1>0 DEF AnswerReal, InFlight
<1>1. ASSUME \/ \E c \in Conns : BeginBackup(q, c) \/ BeginRestore(q, c)
             \/ EndWork(q)
             \/ LoseAnswer(q)
      PROVE  RealInv'
  <2>1. /\ UNCHANGED <<conns, consents, valid, disk>>
        /\ \A p \in Callers \ {q} : callers'[p] = callers[p]
        /\ callers'[q].phase \in {"idle", "working"} /\ q \notin overtaken'
        /\ \A p \in Callers \ {q} : p \in overtaken' <=> p \in overtaken
    <3>1. CASE \E c \in Conns : BeginBackup(q, c) \/ BeginRestore(q, c)
      BY <1>a, <3>1, BeginsWork DEF Begin, TypeOK
    <3>2. CASE EndWork(q)
      BY <1>a, <3>2 DEF EndWork, IdleCaller, TypeOK
    <3>3. CASE LoseAnswer(q)
      BY <3>3 DEF LoseAnswer, BackToWork, TypeOK, Caller
    <3> QED
      BY <1>1, <3>1, <3>2, <3>3
  <2>2. Onward
    BY <2>1 DEF Onward
  <2>3. Real(conns)' /\ Real(disk.conns)'
    BY <2>1, <2>2, RealStays
  <2>4. AnswerReal(q)'
    BY <2>1 DEF AnswerReal, InFlight
  <2> QED
    BY <2>1, <2>2, <2>3, <2>4, OthersReal DEF RealInv
<1>2. CASE SendRefresh(q)
  <2>1. /\ UNCHANGED <<conns, consents, valid, disk, overtaken>>
        /\ \A p \in Callers \ {q} : callers'[p] = callers[p]
        /\ callers'[q].phase = "sent" /\ callers'[q].conn = k
        /\ callers'[q].token = conns[k].token /\ q \notin overtaken
    BY <1>2, <1>a DEF SendRefresh, TypeOK, Caller
  <2>2. Onward
    BY <2>1 DEF Onward
  <2>3. Real(conns)' /\ Real(disk.conns)'
    BY <2>1, <2>2, RealStays
  <2>4. AnswerReal(q)'
    BY <2>1 DEF AnswerReal
  <2> QED
    BY <2>1, <2>2, <2>3, <2>4, OthersReal DEF RealInv
<1>3. CASE Grant(q)
  <2>1. /\ UNCHANGED <<conns, disk, overtaken>>
        /\ \A p \in Callers \ {q} : callers'[p] = callers[p]
        /\ callers[q].phase = "sent" /\ callers[q].token \in valid
        /\ callers'[q].phase = "granted" /\ callers'[q].conn = k
        /\ callers'[q].token = callers[q].token
    BY <1>3 DEF Grant, TypeOK, Caller
  <2>2. Onward
    BY <1>3, FreshToken DEF Grant, Onward
  <2>3. Real(conns)' /\ Real(disk.conns)'
    BY <2>1, <2>2, RealStays
  <2>4. ASSUME conns[k].status = "needs_reauth"
        PROVE  conns[k].misjudged
    <3>1. callers[q].token = conns[k].token
      BY <1>0, <2>1, <2>4 DEF AnswerReal, InFlight
    <3> QED
      BY <1>0, <2>1, <2>4, <3>1 DEF RealInv, Real
  <2>5. AnswerReal(q)'
    BY <1>0, <2>1, <2>4 DEF AnswerReal, InFlight
  <2> QED
    BY <2>1, <2>2, <2>3, <2>5, OthersReal DEF RealInv
<1>4. CASE Refuse(q)
  <2>1. /\ UNCHANGED <<conns, consents, valid, disk, overtaken>>
        /\ \A p \in Callers \ {q} : callers'[p] = callers[p]
        /\ callers[q].phase = "sent" /\ callers[q].token \notin valid
        /\ callers'[q].phase = "refused" /\ callers'[q].conn = k
        /\ callers'[q].token = callers[q].token
    BY <1>4 DEF Refuse, TypeOK, Caller
  <2>2. Onward
    BY <2>1 DEF Onward
  <2>3. Real(conns)' /\ Real(disk.conns)'
    BY <2>1, <2>2, RealStays
  <2>4. AnswerReal(q)'
    BY <1>0, <2>1 DEF AnswerReal, InFlight
  <2> QED
    BY <2>1, <2>2, <2>3, <2>4, OthersReal DEF RealInv
<1>5. CASE StoreToken(q)
  <2>1. /\ valid' = valid /\ disk'.conns = conns'
        /\ callers[q].phase = "granted" /\ callers'[q].phase = "working"
        /\ overtaken' = overtaken \ {q}
        /\ \A p \in Callers \ {q} : callers'[p] = callers[p]
    BY <1>5 DEF StoreToken, Save, BackToWork, TypeOK, Caller
  <2>2. /\ conns'[k].status = conns[k].status
        /\ conns'[k].misjudged = conns[k].misjudged
        /\ \A d \in Conns \ {k} : conns'[d] = conns[d]
    BY <1>0, <1>5 DEF StoreToken, TypeOK, Conn
  <2>3. Onward
    BY <2>1 DEF Onward
  <2>4. conns[k].status = "needs_reauth" => conns[k].misjudged
    BY <1>0, <2>1 DEF AnswerReal
  <2>5. Real(conns)' /\ Real(disk.conns)'
    BY <2>1, <2>2, <2>3, <2>4, RealStays
  <2>6. AnswerReal(q)'
    BY <2>1 DEF AnswerReal, InFlight
  <2>7. InFlight(q)
    BY <2>1 DEF InFlight
  <2> QED
    BY <2>1, <2>2, <2>3, <2>5, <2>6, <2>7, OthersReal DEF RealInv
<1>6. CASE MarkNeedsReauth(q)
  <2>1. /\ valid' = valid /\ disk'.conns = conns'
        /\ callers[q].phase = "refused" /\ callers'[q].phase = "working"
        /\ overtaken' = overtaken \ {q}
        /\ \A p \in Callers \ {q} : callers'[p] = callers[p]
    BY <1>6 DEF MarkNeedsReauth, Save, BackToWork, TypeOK, Caller
  <2>2. /\ conns'[k].token = conns[k].token
        /\ conns'[k].misjudged = (q \in overtaken)
        /\ \A d \in Conns \ {k} : conns'[d] = conns[d]
    BY <1>0, <1>6 DEF MarkNeedsReauth, TypeOK, Conn
  <2>3. Onward
    BY <2>1 DEF Onward
  <2>4. q \in overtaken \/ conns[k].token \notin valid
    BY <1>0, <2>1 DEF AnswerReal, InFlight
  <2>5. Real(conns)' /\ Real(disk.conns)'
    BY <2>1, <2>2, <2>3, <2>4, RealStays
  <2>6. AnswerReal(q)'
    BY <2>1 DEF AnswerReal, InFlight
  <2>7. InFlight(q)
    BY <2>1 DEF InFlight
  <2> QED
    BY <2>1, <2>2, <2>3, <2>5, <2>6, <2>7, OthersReal DEF RealInv
<1>7. CASE SiteNotFound(q)
  <2>1. /\ UNCHANGED <<valid, callers, overtaken>> /\ disk'.conns = conns'
        /\ callers[q].phase = "working" /\ q \notin overtaken
    BY <1>7, <1>a DEF SiteNotFound, Save
  <2>2. /\ conns'[k].token = conns[k].token
        /\ conns'[k].status = "CLOUD_ID_NOT_FOUND"
        /\ \A d \in Conns \ {k} : conns'[d] = conns[d]
    BY <1>0, <1>7 DEF SiteNotFound, TypeOK, Conn
  <2>3. Onward
    BY <2>1 DEF Onward
  <2>4. Real(conns)' /\ Real(disk.conns)'
    BY <2>1, <2>2, <2>3, RealStays
  <2>5. AnswerReal(q)'
    BY <2>1 DEF AnswerReal, InFlight
  <2> QED
    BY <2>1, <2>2, <2>3, <2>4, <2>5, OthersReal DEF RealInv
<1> QED
  BY <1>1, <1>2, <1>3, <1>4, <1>5, <1>6, <1>7

\* It is true at first,
LEMMA RealInit == Init => RealInv
<1> SUFFICES ASSUME Init PROVE RealInv
  OBVIOUS
<1>1. /\ \A c \in Conns : conns[c].status = "none" /\ disk.conns[c].status = "none"
      /\ \A q \in Callers : callers[q].phase = "idle"
      /\ overtaken = {}
  BY DEF Init, NoConn, IdleCaller
<1> QED
  BY <1>1 DEF RealInv, Real, AnswerReal, InFlight

\* and in every step.
LEMMA RealNext == TypeOK /\ TokensInv /\ RealInv /\ [Next]_vars => RealInv'
<1> SUFFICES ASSUME TypeOK, TokensInv, RealInv, [Next]_vars
             PROVE  RealInv'
  OBVIOUS
<1>1. ASSUME NEW c \in Conns, SoftDelete(c) \/ Restore(c)
      PROVE  RealInv'
  <2>1. UNCHANGED <<consents, callers, issued, valid, gone, disk, overtaken>>
    BY <1>1 DEF SoftDelete, Restore
  <2>2. \A d \in Conns :
          /\ conns'[d].token = conns[d].token
          /\ conns'[d].misjudged = conns[d].misjudged
          /\ conns'[d].status = "needs_reauth" => conns[d].status = "needs_reauth"
    <3>1. CASE SoftDelete(c)
      BY <3>1 DEF SoftDelete, TypeOK, Conn
    <3>2. CASE Restore(c)
      BY <3>2 DEF Restore, TypeOK, Conn
    <3> QED
      BY <1>1, <3>1, <3>2
  <2>3. Onward
    BY <2>1 DEF Onward
  <2>4. Real(conns)' /\ Real(disk.conns)'
    BY <2>1, <2>2, <2>3, RealStays
  <2>5. ASSUME NEW q \in Callers PROVE AnswerReal(q)'
    <3>1. q \in overtaken => InFlight(q)
      BY DEF RealInv, AnswerReal
    <3>2. InFlight(q) => callers[q].conn \in Conns
      BY OnlyExchange
    <3> QED
      BY <2>1, <2>2, <2>3, <3>1, <3>2, AnswerStays
  <2> QED
    BY <2>4, <2>5 DEF RealInv
<1>2. CASE \/ \E t \in Tokens : Revoke(t)
           \/ Autosave
           \/ UNCHANGED vars
  <2>1. /\ UNCHANGED <<conns, callers, overtaken>> /\ valid' \subseteq valid
        /\ disk' = disk \/ disk'.conns = conns'
    BY <1>2 DEF Revoke, Autosave, Save, vars
  <2>2. Onward
    BY <2>1 DEF Onward
  <2>3. Real(conns)' /\ Real(disk.conns)'
    BY <2>1, <2>2, RealStays
  <2>4. ASSUME NEW q \in Callers PROVE AnswerReal(q)'
    <3>1. q \in overtaken => InFlight(q)
      BY DEF RealInv, AnswerReal
    <3> QED
      BY <2>1, <2>2, <3>1, AnswerStays
  <2> QED
    BY <2>3, <2>4 DEF RealInv
<1>3. CASE CrashAndRestart
  <2>1. /\ conns' = disk.conns /\ overtaken' = {}
        /\ UNCHANGED <<disk, valid>>
        /\ \A q \in Callers : callers'[q].phase = "idle"
    BY <1>3 DEF CrashAndRestart, IdleCaller
  <2>2. Real(conns)' /\ Real(disk.conns)'
    BY <2>1 DEF RealInv, Real
  <2>3. ASSUME NEW q \in Callers PROVE AnswerReal(q)'
    BY <2>1 DEF AnswerReal, InFlight
  <2> QED
    BY <2>2, <2>3 DEF RealInv
<1> QED
  BY <1>1, <1>2, <1>3, ConsentReal, CallerReal DEF Next

-----------------------------------------------------------------------------
\* The server loses no token of a connection, in memory or in db.json: Atlassian
\* accepts it, or rotates it in an exchange of that connection, unless it was
\* revoked or the answer that replaced it was lost.
THEOREM TokensKept == Spec => []TokenKept
<1> DEFINE Inv == TypeOK /\ TokensInv
<1>1. Init => KeepInv
  BY KeepInit
<1>2. Inv /\ Inv' /\ KeepInv /\ [Next]_vars => KeepInv'
  BY KeepNext
<1>3. KeepInv => TokenKept
  BY DEF KeepInv, KeptConns, TokenKept, Exists
<1>4. Spec => []Inv
  BY TokensInvariant
<1> HIDE DEF Inv
<1> QED
  BY <1>1, <1>2, <1>3, <1>4, PTL DEF Spec

\* A connection asks to be reauthenticated only when Atlassian does not accept
\* its token, however refreshes, reauthentications, deletions, restores, lost
\* answers and crashes interleave, unless the refusal that marked it was of a
\* token replaced while the exchange was under way.
THEOREM NeedsReauthReal == Spec => []NeedsReauthIsReal
<1> DEFINE Inv == TypeOK /\ TokensInv
<1>1. Init => RealInv
  BY RealInit
<1>2. Inv /\ RealInv /\ [Next]_vars => RealInv'
  BY RealNext
<1>3. RealInv => NeedsReauthIsReal
  BY DEF RealInv, Real, NeedsReauthIsReal
<1>4. Spec => []Inv
  BY TokensInvariant
<1> HIDE DEF Inv
<1> QED
  BY <1>1, <1>2, <1>3, <1>4, PTL DEF Spec

-----------------------------------------------------------------------------
\* The deletion of connection c comes to an end and leaves its date.
Undeleted(c) ==
    /\ conns[c].status = "soft_deleted" /\ conns[c].softDeletedAt
    /\ conns'[c].status # "soft_deleted" /\ conns'[c].softDeletedAt

\* A connection that keeps its record, or its status, stays deleted; one whose
\* date is cleared is restored.
LEMMA DeletionStays ==
    ASSUME NEW c \in Conns,
           \/ conns'[c] = conns[c] \/ conns'[c].status = conns[c].status
           \/ conns[c].status # "soft_deleted" \/ conns'[c].status = "soft_deleted"
           \/ conns'[c].softDeletedAt = FALSE
    PROVE  ~Undeleted(c)
  BY DEF Undeleted

\* A consent that ends a deletion was asked for the connection.
LEMMA ConsentUndeletes ==
    ASSUME TypeOK, NEW c \in Conns, NEW s \in Consents, Undeleted(c),
           \/ AskConsent(s)
           \/ \E d \in Conns : Reauthenticate(s, d)
           \/ ConsentFails(s)
           \/ \E d \in Conns, site \in Sites : ConnectSite(s, d, site)
           \/ OfferSites(s)
           \/ \E d \in Conns, site \in Sites : SelectSite(s, d, site)
           \/ Reauthorize(s)
    PROVE  Undeletes(c)
<1>1. CASE AskConsent(s) \/ ConsentFails(s) \/ OfferSites(s)
  BY <1>1, DeletionStays DEF AskConsent, ConsentFails, OfferSites
<1>2. ASSUME NEW d \in Conns, Reauthenticate(s, d) PROVE Undeletes(c)
  BY <1>2, DeletionStays DEF Reauthenticate
<1>3. ASSUME NEW d \in Conns, NEW site \in Sites, NEW t, Finalize(s, d, site, t)
      PROVE  FALSE
  <2>1. CASE d = c
    BY <1>3, <2>1, DeletionStays DEF Finalize
  <2>2. CASE d # c
    BY <1>3, <2>2, DeletionStays DEF Finalize, TypeOK
  <2> QED
    BY <2>1, <2>2
<1>4. ASSUME NEW d \in Conns, NEW site \in Sites, ConnectSite(s, d, site)
      PROVE  Undeletes(c)
  BY <1>3, <1>4 DEF ConnectSite
<1>5. ASSUME NEW d \in Conns, NEW site \in Sites, SelectSite(s, d, site)
      PROVE  Undeletes(c)
  BY <1>3, <1>5 DEF SelectSite
<1>6. CASE Reauthorize(s)
  <2>1. CASE consents[s].target = c
    <3>1. conns'[c].status = "active"
      BY <1>6, <2>1 DEF Reauthorize, TypeOK, Conn
    <3> QED
      BY <1>6, <2>1, <3>1 DEF Reauthorize, Undeletes
  <2>2. CASE consents[s].target # c
    BY <1>6, <2>2, DeletionStays DEF Reauthorize, TypeOK
  <2> QED
    BY <2>1, <2>2
<1> QED
  BY <1>1, <1>2, <1>4, <1>5, <1>6

\* No backup began on a deleted connection, and restores may have.
NeverLate == \A q \in Callers : ~callers[q].late

LEMMA NeverLateNext == TypeOK /\ NeverLate /\ [Next]_vars => NeverLate'
<1> SUFFICES ASSUME TypeOK, NeverLate, [Next]_vars, NEW q \in Callers
             PROVE  ~callers'[q].late
  BY DEF NeverLate
<1>0. ~callers[q].late /\ ~IdleCaller.late
  BY DEF NeverLate, IdleCaller
<1>1. ASSUME NEW p \in Callers, NEW c \in Conns, BeginBackup(p, c) \/ BeginRestore(p, c)
      PROVE  ~callers'[q].late
  <2>1. CASE BeginBackup(p, c)
    BY <1>0, <2>1 DEF BeginBackup, Begin, TypeOK
  <2>2. CASE BeginRestore(p, c)
    BY <1>0, <2>2 DEF BeginRestore, Begin, TypeOK
  <2> QED
    BY <1>1, <2>1, <2>2
<1>2. ASSUME NEW p \in Callers,
             \/ EndWork(p) \/ SendRefresh(p) \/ Grant(p) \/ Refuse(p)
             \/ StoreToken(p) \/ MarkNeedsReauth(p) \/ LoseAnswer(p) \/ SiteNotFound(p)
      PROVE  ~callers'[q].late
  <2>1. CASE EndWork(p)
    BY <1>0, <2>1 DEF EndWork, TypeOK
  <2>2. CASE SendRefresh(p) \/ Grant(p) \/ Refuse(p)
    BY <1>0, <2>2 DEF SendRefresh, Grant, Refuse, TypeOK, Caller
  <2>3. CASE StoreToken(p) \/ MarkNeedsReauth(p) \/ LoseAnswer(p)
    <3>1. BackToWork(p)
      BY <2>3 DEF StoreToken, MarkNeedsReauth, LoseAnswer
    <3>2. callers'[q].late = callers[q].late
      BY <3>1 DEF BackToWork, TypeOK, Caller
    <3> QED
      BY <1>0, <3>2
  <2>4. CASE SiteNotFound(p)
    BY <1>0, <2>4 DEF SiteNotFound
  <2> QED
    BY <1>2, <2>1, <2>2, <2>3, <2>4
<1>3. CASE CrashAndRestart
  BY <1>0, <1>3 DEF CrashAndRestart
<1>4. ASSUME UNCHANGED callers
      PROVE  ~callers'[q].late
  BY <1>0, <1>4
<1>5. ASSUME NEW s \in Consents,
             \/ AskConsent(s)
             \/ \E c \in Conns : Reauthenticate(s, c)
             \/ ConsentFails(s)
             \/ \E c \in Conns, site \in Sites : ConnectSite(s, c, site)
             \/ OfferSites(s)
             \/ \E c \in Conns, site \in Sites : SelectSite(s, c, site)
             \/ Reauthorize(s)
      PROVE  ~callers'[q].late
  <2>1. UNCHANGED callers
    BY <1>5 DEF AskConsent, Reauthenticate, ConsentFails, ConnectSite, OfferSites,
                SelectSite, Reauthorize
  <2> QED
    BY <1>4, <2>1
<1>6. CASE \/ \E c \in Conns : SoftDelete(c) \/ Restore(c)
           \/ \E t \in Tokens : Revoke(t)
           \/ Autosave
           \/ UNCHANGED vars
  BY <1>4, <1>6 DEF SoftDelete, Restore, Revoke, Autosave, vars
<1> QED
  BY <1>1, <1>2, <1>3, <1>5, <1>6 DEF Next

\* A job that ends a deletion is one that was refused the connection's token, or
\* a backup begun before the deletion that does not find its site.
LEMMA CallerUndeletes ==
    ASSUME TypeOK, NeverLate, NEW c \in Conns, NEW q \in Callers, Undeleted(c),
           \/ \E d \in Conns : BeginBackup(q, d) \/ BeginRestore(q, d)
           \/ EndWork(q) \/ SendRefresh(q) \/ Grant(q) \/ Refuse(q)
           \/ StoreToken(q) \/ MarkNeedsReauth(q) \/ LoseAnswer(q) \/ SiteNotFound(q)
    PROVE  Undeletes(c)
<1>0. callers[q].conn \in Conns /\ conns[c] \in Conn
  BY DEF TypeOK, Caller
<1>1. CASE \/ \E d \in Conns : BeginBackup(q, d) \/ BeginRestore(q, d)
           \/ EndWork(q) \/ SendRefresh(q) \/ Grant(q) \/ Refuse(q) \/ LoseAnswer(q)
  <2>1. UNCHANGED conns
    BY <1>1, BeginsWork DEF Begin, EndWork, SendRefresh, Grant, Refuse, LoseAnswer
  <2> QED
    BY <2>1, DeletionStays
<1>2. CASE StoreToken(q)
  <2>1. conns'[c].status = conns[c].status
    BY <1>0, <1>2 DEF StoreToken, TypeOK, Conn
  <2> QED
    BY <2>1, DeletionStays
<1>3. CASE MarkNeedsReauth(q)
  <2>1. CASE callers[q].conn = c
    <3>1. conns'[c].status = "needs_reauth" /\ callers[q].phase = "refused"
      BY <1>0, <1>3, <2>1 DEF MarkNeedsReauth, TypeOK, Conn
    <3> QED
      BY <2>1, <3>1 DEF Undeletes
  <2>2. CASE callers[q].conn # c
    BY <1>3, <2>2, DeletionStays DEF MarkNeedsReauth, TypeOK
  <2> QED
    BY <2>1, <2>2
<1>4. CASE SiteNotFound(q)
  <2>1. CASE callers[q].conn = c
    <3>1. /\ conns'[c].status = "CLOUD_ID_NOT_FOUND"
          /\ callers[q].phase = "working" /\ callers[q].kind = "backup"
      BY <1>0, <1>4, <2>1 DEF SiteNotFound, TypeOK, Conn
    <3> QED
      BY <2>1, <3>1 DEF Undeletes, NeverLate
  <2>2. CASE callers[q].conn # c
    BY <1>4, <2>2, DeletionStays DEF SiteNotFound, TypeOK
  <2> QED
    BY <2>1, <2>2
<1> QED
  BY <1>1, <1>2, <1>3, <1>4

\* A connection that was deleted loses that status, with the date left, only by
\* the refusal of its token to a job, which may be a restore begun after the
\* deletion; by a backup begun before it that does not find the site; by a
\* reauthentication that was asked for; or by a restart (tokenService.js 192 and
\* 462, oauth.js 343).
THEOREM DeletionEndsByWork == Spec => DeletedEndsByWork
<1>1. TypeOK /\ NeverLate /\ [Next]_vars =>
        [\A c \in Conns :
          /\ conns[c].status = "soft_deleted" /\ conns[c].softDeletedAt
          /\ conns'[c].status # "soft_deleted" /\ conns'[c].softDeletedAt
          => Undeletes(c)]_vars
  <2> SUFFICES ASSUME TypeOK, NeverLate, Next, NEW c \in Conns, Undeleted(c)
               PROVE  Undeletes(c)
    BY DEF Undeleted
  <2>1. ASSUME NEW d \in Conns, SoftDelete(d) \/ Restore(d) PROVE FALSE
    <3>1. CASE d = c
      <4>1. CASE SoftDelete(d)
        BY <3>1, <4>1 DEF SoftDelete, Undeleted
      <4>2. CASE Restore(d)
        <5>1. conns[c] \in Conn
          BY DEF TypeOK
        <5>2. conns'[c].softDeletedAt = FALSE
          BY <3>1, <4>2, <5>1 DEF Restore, TypeOK, Conn
        <5> QED
          BY <5>2 DEF Undeleted
      <4> QED
        BY <2>1, <4>1, <4>2
    <3>2. CASE d # c
      BY <2>1, <3>2, DeletionStays DEF SoftDelete, Restore, TypeOK
    <3> QED
      BY <3>1, <3>2
  <2>2. CASE Autosave \/ \E t \in Tokens : Revoke(t)
    BY <2>2, DeletionStays DEF Autosave, Revoke
  <2>3. CASE CrashAndRestart
    BY <2>3 DEF CrashAndRestart, Undeletes
  <2> QED
    BY <2>1, <2>2, <2>3, ConsentUndeletes, CallerUndeletes DEF Next
<1>2. Init => NeverLate
  BY DEF Init, IdleCaller, NeverLate
<1> QED
  BY <1>1, <1>2, NeverLateNext, TypeCorrect, PTL DEF Spec, DeletedEndsByWork
===============================================================================
