----------------------------- MODULE ForwardAuth -----------------------------
(***************************************************************************)
(* The consumers of the login_key cookie in src/obligator.go, composed     *)
(* with the login flows of UpstreamLogin that write it:                    *)
(*   - validate (obligator.go 453-495), the forward-auth check a reverse   *)
(*     proxy runs on every request: it vouches for the first identity of   *)
(*     the session;                                                        *)
(*   - /add-domain (obligator.go 304-371): a session holder registers a    *)
(*     domain in the database and then in the proxy.                       *)
(***************************************************************************)
EXTENDS UpstreamLogin

CONSTANTS
    Passthrough,    \* storage.GetForwardAuthPassthrough()
    Domains,        \* domain names a form may post
    Panic,          \* validate indexing an empty identity list
    NoValidation,   \* (nil, nil): "no identity", passthrough mode
    ValidationError \* (nil, err)

VARIABLES
    domains,        \* db: the domains added, with their owner id
    proxied         \* the domains the reverse proxy serves

faVars == <<vars, domains, proxied>>

\* checkErrPassthrough: a failure is "no identity" in passthrough mode.
checkErrPassthrough == IF Passthrough THEN NoValidation ELSE ValidationError

\* validate(storage, r) for the login_key cookie the request carries.
validate(cookie) ==
    IF ~Fresh(cookie) THEN checkErrPassthrough      \* missing, bad or expired
    ELSE IF cookie.idents = <<>> THEN Panic         \* tokIdents[0]
    ELSE [idType |-> "email", id |-> Head(cookie.idents).id]

\* getIdentities (outside src/): the identities of the cookie if it
\* parses, none otherwise (its error is ignored at obligator.go 326).
getIdentities(cookie) == IF Fresh(cookie) THEN ToSet(cookie.idents) ELSE {}

\* Mutant: owner_id is not compared with the session's identities.
AddDomainUnchecked(d, o) ==
    /\ \/ UNCHANGED <<domains, proxied>>
       \/ /\ domains' = domains \cup {[domain |-> d, owner |-> o]}
          /\ \/ proxied' = proxied \cup {d}
             \/ UNCHANGED proxied
    /\ UNCHANGED vars

\* Mutant: the proxy is told first, and the database write may then fail.
AddDomainProxyFirst(d, o) ==
    /\ \/ /\ o \notin {i.id : i \in getIdentities(loginKey)}
          /\ UNCHANGED <<domains, proxied>>
       \/ /\ o \in {i.id : i \in getIdentities(loginKey)}
          /\ proxied' = proxied \cup {d}
          /\ \/ domains' = domains \cup {[domain |-> d, owner |-> o]}
             \/ UNCHANGED domains
    /\ UNCHANGED vars

\* /add-domain with form values domain = d, owner_id = o (a non-empty
\* domain that url.Parse accepts).  A non-owner is a 403; otherwise the
\* domain is written to the database, whose failure is a 500, then to
\* the proxy, whose failure is a 500 after the database write.
AddDomain(d, o) ==
    /\ \/ /\ o \notin {i.id : i \in getIdentities(loginKey)}     \* 403
          /\ UNCHANGED <<domains, proxied>>
       \/ /\ o \in {i.id : i \in getIdentities(loginKey)}
          /\ \/ UNCHANGED <<domains, proxied>>                   \* 500: db
             \/ /\ domains' = domains \cup {[domain |-> d, owner |-> o]}
                /\ \/ proxied' = proxied \cup {d}
                   \/ UNCHANGED proxied                         \* 500: proxy
    /\ UNCHANGED vars

\* The server process stops and NewServer runs again.  The database and
\* the signing keys in storage survive, and so do the cookies in the
\* browser.  The new proxy gets every domain of the database, each
\* proxy.AddDomain failure only logged.  The requests the old process was
\* serving are lost: a tab awaiting /callback's token exchange sees the
\* connection drop, after the provider may already have exchanged the code.
Restart ==
    LET inflight == {t \in Tabs : tab[t].page = "exchanging"}
    IN
    /\ \E S \in SUBSET {r.domain : r \in domains}: proxied' = S
    /\ \E R \in SUBSET {tab[t].code : t \in inflight}:
          redeemed' = redeemed \cup (R \cap issued)
    /\ tab' = [t \in Tabs |-> IF t \in inflight THEN Idle ELSE tab[t]]
    /\ UNCHANGED <<now, loginKey, upstreamReq, returnUri, flows, issued,
                   stolen, domains>>

faInit == Init /\ domains = {} /\ proxied = {}

faNext ==
    \/ Next /\ UNCHANGED <<domains, proxied>>
    \/ \E d \in Domains, o \in {a.email : a \in Accounts}: AddDomain(d, o)
    \/ Restart

faSpec == faInit /\ [][faNext]_faVars

-----------------------------------------------------------------------------
\* Every domain in the database names as owner an identity that the
\* browser's holder proved: /add-domain checks owner_id against the
\* session, and the session only holds such identities.
DomainOwnersProved ==
    \A r \in domains: \E i \in Owned: i.id = r.owner

\* The proxy serves only domains the database records, through failures
\* of either write in /add-domain and restarts: /add-domain writes the
\* database before the proxy, and NewServer loads the proxy from the
\* database.  (The converse fails: a 500 from proxy.AddDomain leaves a
\* recorded domain unserved until a restart re-adds it.)
ProxiedRecorded ==
    proxied \subseteq {r.domain : r \in domains}
=============================================================================
