-------------------------- MODULE ConnectionTokens --------------------------
(***************************************************************************)
(* The records of db.connections: how an OAuth consent creates or renews   *)
(* one, how jobs at work refresh its rotating token, and how it is deleted *)
(* and restored.                                                           *)
(*                                                                         *)
(* Each handler, and each stretch of code between two awaits, is one       *)
(* action; what is in flight at Atlassian is part of the caller's state.   *)
(* Atlassian rotates the refresh token: an exchange consumes the token it  *)
(* is given and answers with a new one.  Access tokens are left out: they  *)
(* come with the refresh token and only decide when a refresh is asked     *)
(* for, which here is at any time.                                         *)
(***************************************************************************)
EXTENDS Naturals

CONSTANTS
    Conns,       \* connection ids
    Sites,       \* a user's Atlassian sites: the pairs (userId, cloudId)
    Callers,     \* jobs at work on a connection that may ask for a token
    Consents,    \* OAuth states, one for each authorisation URL handed out
    Events,      \* what may happen around the code, see AllEvents
    MaxTokens    \* bound: the refresh tokens Atlassian issues

AllEvents == {"reauthenticate", "delete", "restore", "single site",
              "lost answers", "revocation"}

ASSUME TokensAssumption ==
    /\ Conns # {} /\ Sites # {}
    /\ MaxTokens \in Nat /\ Events \subseteq AllEvents

VARIABLES
    conns,      \* db.connections
    consents,   \* db.pendingStates
    callers,    \* the jobs, and their exchanges in flight
    issued,     \* Atlassian: the number of tokens issued so far
    valid,      \* Atlassian: the tokens it accepts
    gone,       \* tokens that were revoked, or consumed by an exchange whose
                \* answer never arrived
    disk,       \* db.json: the snapshot of conns and consents last saved
    overtaken   \* history: the jobs whose exchange in flight is of a token that
                \* a reauthentication has replaced

vars == <<conns, consents, callers, issued, valid, gone, disk, overtaken>>

-----------------------------------------------------------------------------
Tokens == 1 .. MaxTokens

\* "active" stands for active and degraded, which differ in the scopes granted.
Conn == [status : {"none", "active", "needs_reauth", "CLOUD_ID_NOT_FOUND",
                   "soft_deleted"},
         site : Sites,
         token : 0 .. MaxTokens,       \* refreshToken
         softDeletedAt : BOOLEAN,      \* whether it is set
         misjudged : BOOLEAN]          \* history: it was last marked needs_reauth
                                       \* by a job overtaken

NoConn == [status |-> "none", site |-> CHOOSE s \in Sites : TRUE,
           token |-> 0, softDeletedAt |-> FALSE, misjudged |-> FALSE]

NewConn == "new"

\* "asked": the user was sent to Atlassian; "choosing": a pending connection
\* whose site the user has to select.
Consent == [phase : {"none", "asked", "choosing", "done"},
            target : Conns \cup {NewConn},
            token : 0 .. MaxTokens]

NoConsent == [phase |-> "none", target |-> NewConn, token |-> 0]

Caller == [phase : {"idle", "working", "sent", "granted", "refused"},
           kind : {"backup", "restore"},
           conn : Conns,
           late : BOOLEAN,             \* history: a backup that began when the
                                       \* connection was deleted
           token : 0 .. MaxTokens,     \* the token it sent
           fresh : 0 .. MaxTokens]     \* the token in the answer

IdleCaller == [phase |-> "idle", kind |-> "backup",
               conn |-> CHOOSE c \in Conns : TRUE, late |-> FALSE,
               token |-> 0, fresh |-> 0]

TypeOK ==
    /\ conns \in [Conns -> Conn]
    /\ consents \in [Consents -> Consent]
    /\ callers \in [Callers -> Caller]
    /\ issued \in 0 .. MaxTokens
    /\ valid \in SUBSET Tokens
    /\ gone \in SUBSET Tokens
    /\ disk \in [conns : [Conns -> Conn], consents : [Consents -> Consent]]
    /\ overtaken \in SUBSET Callers

Init ==
    /\ conns = [c \in Conns |-> NoConn]
    /\ consents = [s \in Consents |-> NoConsent]
    /\ callers = [q \in Callers |-> IdleCaller]
    /\ issued = 0
    /\ valid = {}
    /\ gone = {}
    /\ disk = [conns |-> conns, consents |-> consents]
    /\ overtaken = {}

Exists(c) == conns[c].status # "none"
InFlight(q) == callers[q].phase \in {"sent", "granted", "refused"}

\* saveDb, as long as db.json can be written.
Save(cs) == disk' = [conns |-> cs, consents |-> consents]

\* Atlassian issues the next token.
Issue == issued < MaxTokens /\ issued' = issued + 1

-----------------------------------------------------------------------------
(* Consent *)

AskConsent(s) ==
    /\ consents[s].phase = "none"
    /\ consents' = [consents EXCEPT ![s].phase = "asked"]
    /\ UNCHANGED <<conns, callers, issued, valid, gone, disk, overtaken>>

\* POST /integrations/:id/reauthenticate refuses only hard-deleted ones.
Reauthenticate(s, c) ==
    /\ "reauthenticate" \in Events
    /\ consents[s].phase = "none"
    /\ Exists(c)
    /\ consents' = [consents EXCEPT ![s].phase = "asked", ![s].target = c]
    /\ UNCHANGED <<conns, callers, issued, valid, gone, disk, overtaken>>

\* Denied, expired, refused by Atlassian, without a site or a required scope:
\* the pending state is deleted.
ConsentFails(s) ==
    /\ consents[s].phase \in {"asked", "choosing"}
    /\ consents' = [consents EXCEPT ![s] = [NoConsent EXCEPT !.phase = "done"]]
    /\ UNCHANGED <<conns, callers, issued, valid, gone, disk, overtaken>>

\* Mutant: the pending connection is not deleted.
FinalizeAgain(s, c, site, token) ==
    /\ conns[c].status = "none" /\ disk.conns[c].status = "none"
    /\ \A r \in Consents : consents[r].target # c
    /\ conns' = [conns EXCEPT ![c] = [status |-> "active", site |-> site,
                                      token |-> token,
                                      softDeletedAt |-> FALSE,
                                      misjudged |-> FALSE]]
    /\ UNCHANGED consents

\* finalizeConnection, under an id never used before.
Finalize(s, c, site, token) ==
    /\ conns[c].status = "none" /\ disk.conns[c].status = "none"
    /\ \A r \in Consents : consents[r].target # c
    /\ conns' = [conns EXCEPT ![c] = [status |-> "active", site |-> site,
                                      token |-> token,
                                      softDeletedAt |-> FALSE,
                                      misjudged |-> FALSE]]
    /\ consents' = [consents EXCEPT ![s] = [NoConsent EXCEPT !.phase = "done"]]

\* The callback of a consent to one site: what follows its last await.
ConnectSite(s, c, site) ==
    /\ "single site" \in Events
    /\ consents[s].phase = "asked" /\ consents[s].target = NewConn
    /\ Issue
    /\ valid' = valid \cup {issued'}
    /\ Finalize(s, c, site, issued')
    /\ UNCHANGED <<callers, gone, disk, overtaken>>

\* The callback of a consent to several sites.
OfferSites(s) ==
    /\ consents[s].phase = "asked" /\ consents[s].target = NewConn
    /\ Issue
    /\ valid' = valid \cup {issued'}
    /\ consents' = [consents EXCEPT ![s].phase = "choosing",
                                    ![s].token = issued']
    /\ UNCHANGED <<conns, callers, gone, disk, overtaken>>

Connected(site) ==
    \E c \in Conns : /\ conns[c].site = site
                     /\ conns[c].status \notin {"none", "soft_deleted"}

\* POST /oauth/sites/select.
SelectSite(s, c, site) ==
    /\ consents[s].phase = "choosing"
    /\ ~Connected(site)
    /\ Finalize(s, c, site, consents[s].token)
    /\ UNCHANGED <<callers, issued, valid, gone, disk, overtaken>>

\* The callback of a reauthentication: the connection is looked up after the
\* awaits, and gets the new token and status whatever its status was.  Nothing
\* is saved.
Reauthorize(s) ==
    LET c == consents[s].target
    IN  /\ consents[s].phase = "asked" /\ c # NewConn
        /\ Exists(c)
        /\ Issue
        /\ valid' = valid \cup {issued'}
        /\ conns' = [conns EXCEPT ![c].token = issued', ![c].status = "active"]
        /\ consents' = [consents EXCEPT ![s].phase = "done"]
        /\ overtaken' = overtaken \cup {q \in Callers : InFlight(q) /\ callers[q].conn = c}
        /\ UNCHANGED <<callers, gone, disk>>

-----------------------------------------------------------------------------
(* Deletion *)

\* DELETE /integrations/:id.  (A hard delete needs the record's "sandbox" flag,
\* which no code sets.)
SoftDelete(c) ==
    /\ "delete" \in Events
    /\ conns[c].status \notin {"none", "soft_deleted"}
    /\ conns' = [conns EXCEPT ![c].status = "soft_deleted",
                              ![c].softDeletedAt = TRUE]
    /\ UNCHANGED <<consents, callers, issued, valid, gone, disk, overtaken>>

\* Mutant: the deletion date is kept.
RestoreKeepingDate(c) ==
    /\ "restore" \in Events
    /\ conns[c].status = "soft_deleted"
    /\ conns' = [conns EXCEPT ![c].status = "active"]
    /\ UNCHANGED <<consents, callers, issued, valid, gone, disk, overtaken>>

\* POST /integrations/:id/restore, within the retention window.
Restore(c) ==
    /\ "restore" \in Events
    /\ conns[c].status = "soft_deleted"
    /\ conns' = [conns EXCEPT ![c].status = "active", ![c].softDeletedAt = FALSE]
    /\ UNCHANGED <<consents, callers, issued, valid, gone, disk, overtaken>>

-----------------------------------------------------------------------------
(* Jobs and their tokens *)

Begin(q, c, kind) ==
    /\ callers[q].phase = "idle"
    /\ callers' = [callers EXCEPT ![q] =
            [phase |-> "working", kind |-> kind, conn |-> c,
             late |-> kind = "backup" /\ conns[c].status = "soft_deleted",
             token |-> 0, fresh |-> 0]]
    /\ UNCHANGED <<conns, consents, issued, valid, gone, disk, overtaken>>

\* Mutant: a backup of a deleted connection is not refused.
BeginBackupOfAny(q, c) ==
    /\ conns[c].status # "none"
    /\ Begin(q, c, "backup")

\* POST /integrations/:id/backup refuses a deleted connection.
BeginBackup(q, c) ==
    /\ conns[c].status \notin {"none", "soft_deleted"}
    /\ Begin(q, c, "backup")

\* None of the restore routes does.
BeginRestore(q, c) ==
    /\ Exists(c)
    /\ Begin(q, c, "restore")

EndWork(q) ==
    /\ callers[q].phase = "working"
    /\ callers' = [callers EXCEPT ![q] = IdleCaller]
    /\ UNCHANGED <<conns, consents, issued, valid, gone, disk, overtaken>>

\* _pendingRefreshes: who comes while an exchange is pending joins it, which
\* changes nothing.
Refreshing(c) == \E q \in Callers : InFlight(q) /\ callers[q].conn = c

\* Mutant: every caller sends an exchange of its own.
SendRefreshEach(q) ==
    /\ callers[q].phase = "working"
    /\ callers' = [callers EXCEPT ![q].phase = "sent",
                                  ![q].token = conns[callers[q].conn].token]
    /\ UNCHANGED <<conns, consents, issued, valid, gone, disk, overtaken>>

\* The access token expires soon, or a request came back with 401: the token
\* is read and the exchange sent.
SendRefresh(q) ==
    /\ callers[q].phase = "working"
    /\ ~Refreshing(callers[q].conn)
    /\ callers' = [callers EXCEPT ![q].phase = "sent",
                                  ![q].token = conns[callers[q].conn].token]
    /\ UNCHANGED <<conns, consents, issued, valid, gone, disk, overtaken>>

\* Atlassian's side of the exchange.
Grant(q) ==
    /\ callers[q].phase = "sent" /\ callers[q].token \in valid
    /\ Issue
    /\ valid' = (valid \ {callers[q].token}) \cup {issued'}
    /\ callers' = [callers EXCEPT ![q].phase = "granted", ![q].fresh = issued']
    /\ UNCHANGED <<conns, consents, gone, disk, overtaken>>

Refuse(q) ==
    /\ callers[q].phase = "sent" /\ callers[q].token \notin valid
    /\ callers' = [callers EXCEPT ![q].phase = "refused"]
    /\ UNCHANGED <<conns, consents, issued, valid, gone, disk, overtaken>>

BackToWork(q) ==
    /\ callers' = [callers EXCEPT ![q].phase = "working", ![q].token = 0,
                                  ![q].fresh = 0]
    /\ overtaken' = overtaken \ {q}

\* Mutant: the new token is not saved.
StoreTokenUnsaved(q) ==
    /\ callers[q].phase = "granted"
    /\ conns' = [conns EXCEPT ![callers[q].conn].token = callers[q].fresh]
    /\ BackToWork(q)
    /\ UNCHANGED <<consents, issued, valid, gone, disk>>

\* The answer of an exchange that was granted.  The status is left alone.
StoreToken(q) ==
    /\ callers[q].phase = "granted"
    /\ conns' = [conns EXCEPT ![callers[q].conn].token = callers[q].fresh]
    /\ Save(conns')
    /\ BackToWork(q)
    /\ UNCHANGED <<consents, issued, valid, gone>>

\* Mutant: the status of the job is written to the connection.
MarkAuthError(q) ==
    /\ callers[q].phase = "refused"
    /\ conns' = [conns EXCEPT ![callers[q].conn].status = "auth_error"]
    /\ Save(conns')
    /\ BackToWork(q)
    /\ UNCHANGED <<consents, issued, valid, gone>>

\* 400 or 401.
MarkNeedsReauth(q) ==
    /\ callers[q].phase = "refused"
    /\ conns' = [conns EXCEPT ![callers[q].conn].status = "needs_reauth",
                              ![callers[q].conn].misjudged = q \in overtaken]
    /\ Save(conns')
    /\ BackToWork(q)
    /\ UNCHANGED <<consents, issued, valid, gone>>

Consumed(qs) == {callers[q].token : q \in {p \in qs : callers[p].phase = "granted"}}

\* Timeout, connection reset or 5xx: the error is thrown on, nothing changes.
LoseAnswer(q) ==
    /\ "lost answers" \in Events
    /\ InFlight(q)
    /\ gone' = gone \cup Consumed({q})
    /\ BackToWork(q)
    /\ UNCHANGED <<conns, consents, issued, valid, disk>>

\* verifyAndRefreshCloudId, which only backups call, finds the site in no
\* accessible resource.
SiteNotFound(q) ==
    /\ callers[q].phase = "working" /\ callers[q].kind = "backup"
    /\ conns' = [conns EXCEPT ![callers[q].conn].status = "CLOUD_ID_NOT_FOUND"]
    /\ Save(conns')
    /\ UNCHANGED <<consents, callers, issued, valid, gone, overtaken>>

\* The user revokes the grant, or it is not used for 90 days.
Revoke(t) ==
    /\ "revocation" \in Events
    /\ t \in valid
    /\ valid' = valid \ {t}
    /\ gone' = gone \cup {t}
    /\ UNCHANGED <<conns, consents, callers, issued, disk, overtaken>>

-----------------------------------------------------------------------------
(* Persistence *)

Autosave ==
    /\ Save(conns)
    /\ UNCHANGED <<conns, consents, callers, issued, valid, gone, overtaken>>

CrashAndRestart ==
    /\ conns' = disk.conns
    /\ consents' = disk.consents
    /\ callers' = [q \in Callers |-> IdleCaller]
    /\ gone' = gone \cup Consumed(Callers)
    /\ overtaken' = {}
    /\ UNCHANGED <<issued, valid, disk>>

Next ==
    \/ \E s \in Consents :
        \/ AskConsent(s)
        \/ \E c \in Conns : Reauthenticate(s, c)
        \/ ConsentFails(s)
        \/ \E c \in Conns, site \in Sites : ConnectSite(s, c, site)
        \/ OfferSites(s)
        \/ \E c \in Conns, site \in Sites : SelectSite(s, c, site)
        \/ Reauthorize(s)
    \/ \E c \in Conns : SoftDelete(c) \/ Restore(c)
    \/ \E q \in Callers :
        \/ \E c \in Conns : BeginBackup(q, c) \/ BeginRestore(q, c)
        \/ EndWork(q)
        \/ SendRefresh(q)
        \/ Grant(q)
        \/ Refuse(q)
        \/ StoreToken(q)
        \/ MarkNeedsReauth(q)
        \/ LoseAnswer(q)
        \/ SiteNotFound(q)
    \/ \E t \in Tokens : Revoke(t)
    \/ Autosave
    \/ CrashAndRestart

Spec == Init /\ [][Next]_vars

-----------------------------------------------------------------------------
(* Properties *)

\* A refresh token is in one exchange at a time.  Sent twice, the second
\* exchange would be refused after the first consumed it, and a healthy
\* connection marked needs_reauth (AC-5 of tests/sprint16-token-refresh).
OneExchangePerToken ==
    \A p, q \in Callers : InFlight(p) /\ InFlight(q) /\ p # q =>
        callers[p].token # callers[q].token

\* No two connections, and no connection and pending site selection, hold the
\* same token, whatever consents, selections, refreshes and crashes do.
NoSharedToken ==
    /\ \A c, d \in Conns : Exists(c) /\ Exists(d) /\ c # d =>
            conns[c].token # conns[d].token
    /\ \A c \in Conns, s \in Consents :
            Exists(c) /\ consents[s].phase = "choosing" =>
                conns[c].token # consents[s].token

\* The token of a connection is never lost by the server itself: Atlassian
\* accepts it, or has just rotated it in an exchange whose answer is under
\* way, unless it was revoked or the answer was lost.  A restart finds such a
\* token too.
Kept(c, token) ==
    \/ token \in valid \cup gone
    \/ \E q \in Callers : /\ callers[q].phase = "granted"
                          /\ callers[q].conn = c /\ callers[q].token = token

TokenKept ==
    \A c \in Conns :
        /\ Exists(c) => Kept(c, conns[c].token)
        /\ disk.conns[c].status # "none" => Kept(c, disk.conns[c].token)

\* A connection asks the user to reauthenticate only when Atlassian does not
\* accept the token it holds.  The code breaks this in one way, and the property
\* excepts no more than that: the refusal that marked it was of a token that a
\* reauthentication had replaced while the exchange was under way.
NeedsReauthIsReal ==
    \A c \in Conns : conns[c].status = "needs_reauth" /\ ~conns[c].misjudged =>
        conns[c].token \notin valid

\* What the properties above rest on, and what every action keeps.  The tokens
\* of connections, of site selections and of exchanges under way are issued
\* ones and pairwise different, unless an exchange is one of the connection
\* itself; one exchange per connection is under way.
Choosing(cs, s) == cs[s].phase = "choosing"

Apart(ks, cs) ==
    /\ \A c \in Conns : ks[c].status # "none" => ks[c].token \in 1 .. issued
    /\ \A s \in Consents : Choosing(cs, s) => cs[s].token \in 1 .. issued
    /\ \A c, d \in Conns :
            ks[c].status # "none" /\ ks[d].status # "none" /\ c # d =>
                ks[c].token # ks[d].token
    /\ \A c \in Conns, s \in Consents :
            ks[c].status # "none" /\ Choosing(cs, s) => ks[c].token # cs[s].token
    /\ \A r, s \in Consents : Choosing(cs, r) /\ Choosing(cs, s) /\ r # s =>
            cs[r].token # cs[s].token

\* The tokens an exchange has sent or got.
Used(q) == {callers[q].token, callers[q].fresh} \ {0}

ExchangesIssued ==
    \A q \in Callers :
        /\ callers[q].phase # "idle" => Exists(callers[q].conn)
        /\ Used(q) \subseteq 1 .. issued
        /\ InFlight(q) <=> callers[q].token # 0
        /\ callers[q].phase = "granted" <=> callers[q].fresh # 0

ExchangesApart ==
    /\ \A q \in Callers, c \in Conns : Exists(c) /\ c # callers[q].conn =>
            conns[c].token \notin Used(q)
    /\ \A q \in Callers, s \in Consents : Choosing(consents, s) =>
            consents[s].token \notin Used(q)
    /\ \A p, q \in Callers : InFlight(p) /\ InFlight(q) /\ p # q =>
            callers[p].conn # callers[q].conn /\ Used(p) \cap Used(q) = {}

TokensInv ==
    /\ Apart(conns, consents) /\ Apart(disk.conns, disk.consents)
    /\ ExchangesIssued /\ ExchangesApart

\* Hazard: the status of a deleted connection is overwritten, and the restore
\* route, which wants the status soft_deleted, refuses it from then on though
\* softDeletedAt is still set.  Who can do this: a job whose token is refused,
\* and that may be a restore begun after the deletion; a backup begun before it
\* that does not find the site; a reauthentication asked for the connection; a
\* restart from a snapshot older than the deletion.  Nothing else does.
Undeletes(c) ==
    \/ /\ conns'[c].status = "needs_reauth"
       /\ \E q \in Callers : callers[q].conn = c /\ callers[q].phase = "refused"
    \/ /\ conns'[c].status = "CLOUD_ID_NOT_FOUND"
       /\ \E q \in Callers : /\ callers[q].conn = c /\ callers[q].phase = "working"
                              /\ callers[q].kind = "backup" /\ ~callers[q].late
    \/ /\ conns'[c].status = "active"
       /\ \E s \in Consents : consents[s].phase = "asked" /\ consents[s].target = c
    \/ conns' = disk.conns

DeletedEndsByWork ==
    [][\A c \in Conns :
          /\ conns[c].status = "soft_deleted" /\ conns[c].softDeletedAt
          /\ conns'[c].status # "soft_deleted" /\ conns'[c].softDeletedAt
          => Undeletes(c)]_vars
=============================================================================
