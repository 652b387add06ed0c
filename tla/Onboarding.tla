----------------------------- MODULE Onboarding ------------------------------
(***************************************************************************)
(* Agents that register themselves (agent-self-register                    *)
(* register_agent.py, registry-service onboarding.py), beside the          *)
(* administrators of AgentRegistry.  The Registry decides from an agent's  *)
(* manifest whether to take its Agent Card, to store a definition for an   *)
(* adapter it has, to find out first how the agent answers by probing its  *)
(* endpoint, or to file a request for a new adapter.                       *)
(*                                                                         *)
(* The handler awaits the card or the probe and runs in one step from      *)
(* there; an agent that gave up waiting may have registered again by then. *)
(***************************************************************************)
EXTENDS AgentRegistry

CONSTANTS
  Manifest,         \* the manifests agents register with
  MaxRegistration,  \* bound on the registrations that wait for an answer
  MaxRequest        \* bound on adapter requests

(* What the Registry tells apart: an Agent Card, an agent behind the       *)
(* adapter openclaw-responses, one behind declarative-http whose manifest  *)
(* names the selectors of the answer (declarative) or a test case to infer *)
(* them from (probed), and one that no adapter fits.                       *)
Kind == {"native", "openclaw", "declarative", "probed", "unsupported"}

(* auth: what the interface says of authentication. *)
ASSUME OnboardingAssumption ==
  /\ Manifest \subseteq
       [agent: Agent, kind: Kind, content: Content, auth: {"unset", "none", "env"}]
  /\ MaxRegistration \in Nat /\ MaxRequest \in Nat

VARIABLES
  registrations,  \* those whose handler awaits an answer
  requests,       \* table adapter_requests
  settled         \* history: the registration that made each agent what it is

onboardingVars == <<registrations, requests, settled>>

(* token: AGENT_ENDPOINT_TOKEN; answer: the card's version, the content of *)
(* the definition with the selector inferred, or 0.                        *)
Registration ==
  [manifest: Manifest, token: Token \cup {NoToken}, answer: Content \cup 0 .. MaxCard]
Unsettled == [answer |-> 0]

OnboardingTypeOK ==
  /\ TypeOK
  /\ registrations \in SUBSET Registration
  /\ requests \in 0 .. MaxRequest
  /\ settled \in [Agent -> Registration \cup {Unsettled}]

OnboardingInit ==
  /\ Init
  /\ registrations = {}
  /\ requests = 0
  /\ settled = [a \in Agent |-> Unsettled]

-----------------------------------------------------------------------------
(* _backend_auth, after attach_agent_token has replaced what the interface *)
(* said by the token.  The Registry's own OpenClaw token is the default.   *)
BackendAuth(r) ==
  CASE r.token # NoToken -> "ref"
    [] r.token = NoToken /\ r.manifest.auth = "env" -> "env"
    [] r.token = NoToken /\ r.manifest.auth = "unset" /\ r.manifest.kind = "openclaw" -> "env"
    [] OTHER -> "none"

(* What is stored once the answer is there: the registration always says   *)
(* how to authenticate and never clears a token.                           *)
Upserts(r) ==
  LET a == r.manifest.agent IN
  CASE r.manifest.kind = "native" -> UpsertNative(a, r.manifest.content, r.answer)
    [] r.manifest.kind = "probed" -> UpsertManaged(a, r.answer, BackendAuth(r), r.token, FALSE)
    [] OTHER -> UpsertManaged(a, r.manifest.content, BackendAuth(r), r.token, FALSE)

(* The forms that show the agent are overtaken. *)
Registers(r) ==
  /\ Upserts(r)
  /\ settled' = [settled EXCEPT ![r.manifest.agent] = r]
  /\ forms' = [e \in Editor |-> IF forms[e].agent = r.manifest.agent
                                THEN [forms[e] EXCEPT !.fresh = FALSE] ELSE forms[e]]
  /\ UNCHANGED <<fetches, provider, gateway, crossed, requests>>

(* create_adapter_request: a row of its own for every registration. *)
AdapterRequested ==
  /\ requests < MaxRequest
  /\ requests' = requests + 1
  /\ UNCHANGED <<vars, registrations, settled>>

Awaits(m) == m.kind \in {"native", "probed"}

(* A token needs an interface, which a native manifest does without. *)
Post(m, token) ==
  LET r == [manifest |-> m, token |-> token, answer |-> 0] IN
  /\ m.kind = "native" => token = NoToken
  /\ \/ /\ Awaits(m)
        /\ Cardinality(registrations) < MaxRegistration
        /\ registrations' = registrations \cup {r}
        /\ UNCHANGED <<vars, requests, settled>>
     \/ /\ m.kind \in {"openclaw", "declarative"}
        /\ Registers(r)
        /\ UNCHANGED registrations
     \/ m.kind = "unsupported" /\ AdapterRequested

(* The card or the answer to the probe is there, and is stored at once. *)
Answered(r) ==
  /\ registrations' = registrations \ {r}
  /\ \E answer \in Content \cup 1 .. MaxCard :
       /\ r.manifest.kind = "native" => answer = provider[r.manifest.agent]
       /\ r.manifest.kind = "probed" => answer \in Content
       /\ Registers([r EXCEPT !.answer = answer])

(* 400: no card, or no text in the answer of the agent's endpoint. *)
RegistrationFails(r) ==
  /\ registrations' = registrations \ {r}
  /\ UNCHANGED <<vars, requests, settled>>

-----------------------------------------------------------------------------
(* What else changes an agent unsettles it. *)
Unsettles ==
  settled' = [a \in Agent |-> IF rows'[a] = rows[a] /\ secrets'[a] = secrets[a]
                              THEN settled[a] ELSE Unsettled]

RequestStep ==
  \/ \E m \in Manifest, token \in Token \cup {NoToken} : Post(m, token)
  \/ \E r \in registrations : Answered(r) \/ RegistrationFails(r)
  \/ AdminNext /\ Unsettles /\ UNCHANGED <<registrations, requests>>

(* A start of the Registry: an agent stays what its registration made it.  *)
OnboardingNext ==
  \/ Serving /\ RequestStep
  \/ Restart /\ registrations' = {} /\ UNCHANGED <<requests, settled>>

OnboardingSpec == OnboardingInit /\ [][OnboardingNext]_<<vars, onboardingVars>>

-----------------------------------------------------------------------------
(* SKILL.md lets an agent register again at every start: registering with  *)
(* the same manifest, token and answer as the agent was registered with    *)
(* last changes neither its definition, its card, its revision nor its     *)
(* token, if nobody else changed them since; even if the Registry has been *)
(* started with another URL in between.                                    *)
RegisteringAgainIsIdle ==
  [][\A a \in Agent : settled[a] # Unsettled /\ settled'[a] = settled[a] /\ gateway' = gateway =>
       rows'[a] = rows[a] /\ secrets'[a] = secrets[a]]_<<vars, onboardingVars>>

-----------------------------------------------------------------------------
(* What these rest on: what a registration that made an agent what it is   *)
(* left of it.                                                             *)
ContentOf(r) == IF r.manifest.kind = "probed" THEN r.answer ELSE r.manifest.content

MadeBy(a, r) ==
  LET definition == rows[a].definition IN
  /\ r.manifest.agent = a
  /\ Registered(a)
  /\ IF r.manifest.kind = "native" THEN definition = Native(r.manifest.content, r.answer)
     ELSE /\ definition = Managed(ContentOf(r), definition.auth, gateway)
          /\ r.token # NoToken => definition.auth = "ref" /\ secrets[a] = r.token
          /\ BackendAuth(r) = "env" => definition.auth = "env" /\ secrets[a] = NoToken
          /\ BackendAuth(r) = "none" => definition.auth \in {"none", "ref"}

SettledKept ==
  \A a \in Agent : settled[a] # Unsettled => Serving /\ MadeBy(a, settled[a])

IInv == OnboardingTypeOK /\ CredentialsMatch /\ CardsCurrent /\ FormsResolve /\ SettledKept
=============================================================================
