---------------------------- MODULE AgentRegistry ---------------------------
(***************************************************************************)
(* The Registry's agents and their credentials (registry-service store.py, *)
(* app.py): administrators edit definitions they read before, native       *)
(* agents have their Agent Card fetched from the provider, and a bearer    *)
(* token is kept in a table of its own, encrypted, and referred to from    *)
(* the definition.                                                         *)
(*                                                                         *)
(* A handler runs without an await except where it fetches a card, so an   *)
(* upsert is one step, and a native one a step after its fetch.  Of a      *)
(* definition the model keeps the integration mode, the kind of            *)
(* authentication and one value for everything else.  The Agent Card of a  *)
(* managed agent is computed from the definition and the public URL of the *)
(* Gateway: of it the model keeps that URL.                                *)
(*                                                                         *)
(* A Registry is started with a Gateway's URL, which may be another one    *)
(* each time, on the database it left or on one of an older version.       *)
(***************************************************************************)
EXTENDS Naturals, FiniteSets

CONSTANTS
  Agent,        \* agent_id values
  Editor,       \* administrators, each with one form open at a time
  Content,      \* what else a definition says
  Token,        \* bearer tokens
  NoToken,
  Bootstrap,    \* the agent of the bootstrap file
  Gateway,      \* values of A2A_GATEWAY_PUBLIC_URL
  NoGateway,
  Legacy,       \* the content of a definition with the removed generic-http preset
  Migrated,     \* what the migration makes of it
  MaxFetch,     \* bound on the native updates that wait at once
  MaxRevision,  \* bound on revisions
  MaxCard       \* bound on the versions of a provider's card

ASSUME RegistryAssumption ==
  /\ NoToken \notin Token
  /\ Bootstrap \in Agent
  /\ NoGateway \notin Gateway
  /\ Legacy \notin Content /\ Migrated \in Content
  /\ MaxFetch \in Nat /\ MaxRevision \in Nat \ {0} /\ MaxCard \in Nat \ {0}
  /\ "none" \notin Agent   \* the mark of a form that is closed

VARIABLES
  rows,      \* table agents
  secrets,   \* table agent_secrets, whose key is agent:{agentId}:bearer
  forms,     \* the definition each administrator is editing
  fetches,   \* native updates that wait for the card
  provider,  \* the card each agent's provider serves now
  gateway,   \* the URL the Registry was started with; NoGateway: not yet
  crossed    \* history: agents of which an overtaken form was saved

registryVars == <<rows, secrets>>
vars == <<registryVars, forms, fetches, provider, gateway, crossed>>

(* How a backend authenticates: not at all, from an environment variable,  *)
(* or by backend.secretRef, which can only name the agent's own secret.    *)
Auth == {"none", "env", "ref"}

Managed(content, auth, url) ==
  [mode |-> "managed", content |-> content, auth |-> auth, card |-> url]
Native(content, card) == [mode |-> "native", content |-> content, auth |-> "none", card |-> card]

(* definition_json and card_json. *)
Definition ==
  [mode: {"managed", "native"}, content: Content \cup {Legacy}, auth: Auth,
   card: Gateway \cup 0 .. MaxCard]

NoRow == [revision |-> 0]
Row == [revision: 1 .. MaxRevision, definition: Definition]

Closed == [agent |-> "none"]

(* fresh: nobody else changed the agent since the form was opened.         *)
Form == [agent: Agent, content: Content, auth: Auth, fresh: BOOLEAN]

TypeOK ==
  /\ rows \in [Agent -> Row \cup {NoRow}]
  /\ secrets \in [Agent -> Token \cup {NoToken}]
  /\ forms \in [Editor -> Form \cup {Closed}]
  /\ fetches \in SUBSET [agent: Agent, content: Content, card: 0 .. MaxCard]
  /\ provider \in [Agent -> 1 .. MaxCard]
  /\ gateway \in Gateway \cup {NoGateway}
  /\ crossed \in SUBSET Agent

Registered(a) == rows[a] # NoRow
Refers(a) == Registered(a) /\ rows[a].definition.auth = "ref"
Serving == gateway # NoGateway

LegacyRow ==
  {[revision |-> 1, definition |-> Managed(Legacy, auth, url)] : auth \in Auth, url \in Gateway}

(* Before the first start: a new database, or one an older version left    *)
(* with agents whose definitions have the removed preset.                  *)
Init ==
  /\ rows \in [Agent -> LegacyRow \cup {NoRow}]
  /\ secrets \in [Agent -> Token \cup {NoToken}]
  /\ \A a \in Agent : Refers(a) <=> secrets[a] # NoToken
  /\ gateway = NoGateway
  /\ forms = [e \in Editor |-> Closed]
  /\ fetches = {}
  /\ provider = [a \in Agent |-> 1]
  /\ crossed = {}

-----------------------------------------------------------------------------
(* AgentRegistry.upsert.  The payload says how to authenticate, may carry  *)
(* a new token, and may ask to clear the stored one.                       *)

(* Mutant of ResolvedAuth: the reference in the payload is not looked at   *)
(* before the one stored.                                                  *)
AuthKept(a, auth, token, clear) ==
  CASE token # NoToken \/ Refers(a) -> "ref"
    [] OTHER -> auth

ResolvedAuth(a, auth, token, clear) ==
  CASE token # NoToken -> "ref"
    [] token = NoToken /\ auth = "env" -> "env"
    [] token = NoToken /\ auth # "env" /\ clear -> "none"
    [] OTHER -> IF auth = "ref" \/ Refers(a) THEN "ref" ELSE "none"

(* Mutant of Revision: a new token alone is no change. *)
RevisionOfDefinition(a, definition, token) ==
  CASE ~Registered(a) -> 1
    [] Registered(a) /\ rows[a].definition = definition -> rows[a].revision
    [] OTHER -> rows[a].revision + 1

(* Another mutant of Revision: the first one is 0. *)
RevisionFromZero(a, definition, token) ==
  CASE ~Registered(a) -> 0
    [] Registered(a) /\ rows[a].definition = definition
         /\ token \in {NoToken, secrets[a]} -> rows[a].revision
    [] OTHER -> rows[a].revision + 1

(* A third one: a token in the payload is a change. *)
RevisionOfPayload(a, definition, token) ==
  CASE ~Registered(a) -> 1
    [] Registered(a) /\ rows[a].definition = definition /\ token = NoToken -> rows[a].revision
    [] OTHER -> rows[a].revision + 1

Revision(a, definition, token) ==
  CASE ~Registered(a) -> 1
    [] Registered(a) /\ rows[a].definition = definition
         /\ token \in {NoToken, secrets[a]} -> rows[a].revision
    [] OTHER -> rows[a].revision + 1

Secret(a, auth, token, clear) ==
  CASE token # NoToken -> token
    [] token = NoToken /\ (clear \/ auth = "env") -> NoToken
    [] OTHER -> secrets[a]

Store(a, definition, token) ==
  /\ Revision(a, definition, token) <= MaxRevision
  /\ rows' = [rows EXCEPT ![a] =
       [revision |-> Revision(a, definition, token), definition |-> definition]]

UpsertManaged(a, content, auth, token, clear) ==
  /\ Store(a, Managed(content, ResolvedAuth(a, auth, token, clear), gateway), token)
  /\ secrets' = [secrets EXCEPT ![a] = Secret(a, auth, token, clear)]

(* A native definition has no backend, and so says nothing of a token. *)
UpsertNative(a, content, card) ==
  /\ Store(a, Native(content, card), NoToken)
  /\ UNCHANGED secrets

-----------------------------------------------------------------------------
(* Administrators. *)

(* The form shows the definition as it is now, or is blank. *)
Open(e, a) ==
  /\ forms[e] = Closed
  /\ \E content \in Content :
       /\ Registered(a) => content = rows[a].definition.content
       /\ forms' = [forms EXCEPT ![e] =
            [agent |-> a, content |-> content,
             auth |-> IF Registered(a) THEN rows[a].definition.auth ELSE "none",
             fresh |-> TRUE]]
  /\ UNCHANGED <<registryVars, fetches, provider, gateway, crossed>>

Closes(e) == forms' = [forms EXCEPT ![e] = Closed]

(* The administrator e changes the agent under the forms of the others. *)
Overtakes(e, a) ==
  forms' = [f \in Editor |->
    CASE f = e -> Closed
      [] f # e /\ forms[f].agent = a -> [forms[f] EXCEPT !.fresh = FALSE]
      [] OTHER -> forms[f]]

Cancel(e) ==
  /\ forms[e] # Closed
  /\ Closes(e)
  /\ UNCHANGED <<registryVars, fetches, provider, gateway, crossed>>

(* The administrator may change the content, and either type a token,      *)
(* which unsays the rest, or name an environment variable or none and tick *)
(* the box that clears the token.  The form's secretRef is sent back as it *)
(* was read.                                                               *)
SaveManaged(e, content, env, token, clear) ==
  LET form == forms[e] IN
  /\ form # Closed
  /\ token # NoToken => ~env /\ ~clear
  /\ UpsertManaged(form.agent, content,
                   CASE env -> "env"
                     [] ~env /\ form.auth = "ref" -> "ref"
                     [] OTHER -> "none",
                   token, clear)
  /\ Overtakes(e, form.agent)
  /\ crossed' = IF form.fresh THEN crossed ELSE crossed \cup {form.agent}
  /\ UNCHANGED <<fetches, provider, gateway>>

(* The handler of a native registration asks the provider for the card. *)
SaveNative(e, content) ==
  /\ forms[e] # Closed
  /\ Cardinality(fetches) < MaxFetch
  /\ fetches' = fetches \cup {[agent |-> forms[e].agent, content |-> content, card |-> 0]}
  /\ Closes(e)
  /\ UNCHANGED <<registryVars, provider, gateway, crossed>>

(* The provider answers with the card it serves at that moment. *)
CardFetched(f) ==
  /\ f.card = 0
  /\ fetches' = (fetches \ {f}) \cup {[f EXCEPT !.card = provider[f.agent]]}
  /\ UNCHANGED <<registryVars, forms, provider, gateway, crossed>>

CardStored(f) ==
  /\ f.card > 0
  /\ fetches' = fetches \ {f}
  /\ UpsertNative(f.agent, f.content, f.card)
  /\ UNCHANGED <<forms, provider, gateway, crossed>>

FetchFails(f) ==
  /\ fetches' = fetches \ {f}
  /\ UNCHANGED <<registryVars, forms, provider, gateway, crossed>>

(* ON DELETE CASCADE takes the secret along. *)
Delete(e, a) ==
  /\ Registered(a)
  /\ forms[e] = Closed
  /\ rows' = [rows EXCEPT ![a] = NoRow]
  /\ secrets' = [secrets EXCEPT ![a] = NoToken]
  /\ Overtakes(e, a)
  /\ UNCHANGED <<fetches, provider, gateway, crossed>>

NewCard(a) ==
  /\ provider[a] < MaxCard
  /\ provider' = [provider EXCEPT ![a] = @ + 1]
  /\ UNCHANGED <<registryVars, forms, fetches, gateway, crossed>>

-----------------------------------------------------------------------------
(* The start of the Registry. *)

(* _migrate_legacy_generic_http. *)
Migrate(content) == IF content = Legacy THEN Migrated ELSE content

IsManaged(row) == row # NoRow /\ row.definition.mode = "managed"

(* Mutant of Restarted: the cards are left as they are. *)
RestartedStale(row, url) ==
  IF IsManaged(row) THEN [row EXCEPT !.definition.content = Migrate(@)] ELSE row

(* What a start makes of an agent: the definition of a managed one is      *)
(* migrated and its card built anew for the Gateway's URL, under the       *)
(* revision it has.                                                        *)
Restarted(row, url) ==
  IF IsManaged(row)
  THEN [row EXCEPT !.definition = Managed(Migrate(@.content), @.auth, url)]
  ELSE row

(* The upsert of the agent of the bootstrap file, when it is not there.    *)
Seeded(content, url) == [revision |-> 1, definition |-> Managed(content, "env", url)]

(* Whatever was in a handler is lost; the agents are migrated, their cards *)
(* built and the agent of the bootstrap file registered.  These are three  *)
(* transactions in a row: one that is cut off between them is gone through *)
(* again by the next start, and no request is served before.               *)
Restart ==
  \E url \in Gateway, content \in Content :
    /\ gateway' = url
    /\ fetches' = {}
    /\ rows' = [a \in Agent |->
         IF a = Bootstrap /\ ~Registered(a)
         THEN Seeded(content, url) ELSE Restarted(rows[a], url)]
    /\ secrets' = IF Registered(Bootstrap) THEN secrets
                  ELSE [secrets EXCEPT ![Bootstrap] = NoToken]
    /\ UNCHANGED <<forms, provider, crossed>>

-----------------------------------------------------------------------------
EditorStep(e) ==
  \/ \E a \in Agent : Open(e, a) \/ Delete(e, a)
  \/ Cancel(e)
  \/ \E content \in Content :
       \/ SaveNative(e, content)
       \/ \E env, clear \in BOOLEAN, token \in Token \cup {NoToken} :
            SaveManaged(e, content, env, token, clear)

AdminNext ==
  \/ \E e \in Editor : EditorStep(e)
  \/ \E f \in fetches : CardFetched(f) \/ CardStored(f) \/ FetchFails(f)
  \/ \E a \in Agent : NewCard(a)

Next == (Serving /\ AdminNext) \/ Restart

Spec == Init /\ [][Next]_vars

-----------------------------------------------------------------------------
(* Properties. *)

(* A definition never refers to a token that is not there, whatever is     *)
(* edited, converted to native and back, deleted, registered again or      *)
(* fetched late, so that the Gateway can resolve it; unless an             *)
(* administrator saved a form that had been overtaken.                     *)
CredentialResolves ==
  \A a \in Agent : Refers(a) /\ a \notin crossed => secrets[a] # NoToken

(* A stored token belongs to a registered agent, so that an agent who is   *)
(* registered under the id of a deleted one never gets its token.          *)
NoOrphanSecret == \A a \in Agent : secrets[a] # NoToken => Registered(a)

(* Definitions and tokens match: no reference without its token, and no    *)
(* token without its agent.                                                *)
CredentialsMatch == CredentialResolves /\ NoOrphanSecret

(* What a revision of an agent stands for changes only at a start of the   *)
(* Registry: another definition, card or effective token comes with a      *)
(* higher revision.  A start with another URL brings managed agents a new  *)
(* card, and the first one those with the removed preset a new content,    *)
(* under the revision they had; mode and credential stay what they were.   *)
Credential(a) == IF Refers(a) THEN secrets[a] ELSE NoToken

OnlyMoved(a) ==
  LET old == rows[a].definition
      new == rows'[a].definition IN
  /\ rows'[a].revision = rows[a].revision /\ Credential(a)' = Credential(a)
  /\ IsManaged(rows[a]) /\ IsManaged(rows'[a])
  /\ new.auth = old.auth /\ new.card = gateway'
  /\ new.content = old.content \/ old.content = Legacy

RevisionCounts ==
  \A a \in Agent : Registered(a) /\ Registered(a)' =>
    \/ rows'[a].revision > rows[a].revision
    \/ rows'[a] = rows[a] /\ Credential(a)' = Credential(a)
    \/ gateway' # gateway /\ OnlyMoved(a)

RevisionTracksChanges == [][RevisionCounts]_vars

(* Whichever Gateway URLs the Registry was started with, and whatever was  *)
(* stored in between, the card of every managed agent names the Gateway    *)
(* the Registry works with now, and no definition has the removed preset.  *)
CardsCurrent ==
  Serving => \A a \in Agent : IsManaged(rows[a]) =>
    rows[a].definition.card = gateway /\ rows[a].definition.content # Legacy

-----------------------------------------------------------------------------
(* What these rest on: a form that nobody overtook and that shows a        *)
(* reference to a token has been read with the token stored.               *)
FormsResolve ==
  \A e \in Editor :
    forms[e] # Closed /\ forms[e].fresh /\ forms[e].auth = "ref" /\ forms[e].agent \notin crossed
      => secrets[forms[e].agent] # NoToken
=============================================================================
