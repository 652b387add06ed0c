------------------------- MODULE AgentRegistryProofs -------------------------
(***************************************************************************)
(* Proofs about the agents of the Registry, edited by administrators and   *)
(* registering themselves (AgentRegistry, Onboarding), for any number of   *)
(* agents, administrators, tokens and manifests.                           *)
(*                                                                         *)
(* The argument: an upsert writes a reference only with a token in the     *)
(* payload, one the definition refers to already, or one a form was read   *)
(* with; and it computes the revision from all a reader can tell apart.    *)
(* While the Registry serves, every managed agent has the card of its      *)
(* Gateway, so that only a start with another Gateway changes a row under  *)
(* the revision it has.                                                    *)
(***************************************************************************)
EXTENDS Onboarding, TLAPS

-----------------------------------------------------------------------------
(* Definitions, rows and forms. *)

LEMMA ManagedFields ==
  ASSUME NEW content, NEW auth, NEW url
  PROVE  /\ Managed(content, auth, url).mode = "managed"
         /\ Managed(content, auth, url).content = content
         /\ Managed(content, auth, url).auth = auth
         /\ Managed(content, auth, url).card = url
         /\ content \in Content \cup {Legacy} /\ auth \in Auth /\ url \in Gateway
              => Managed(content, auth, url) \in Definition
BY DEF Managed, Definition

LEMMA NativeFields ==
  ASSUME NEW content, NEW card
  PROVE  /\ Native(content, card).mode = "native" /\ Native(content, card).auth = "none"
         /\ content \in Content /\ card \in 0 .. MaxCard => Native(content, card) \in Definition
BY RegistryAssumption DEF Native, Definition, Auth

LEMMA RowFields ==
  /\ \A row \in Row : /\ row.revision \in 1 .. MaxRevision /\ row.revision \in Nat
                      /\ row.definition \in Definition /\ row # NoRow
                      /\ row = [revision |-> row.revision, definition |-> row.definition]
  /\ \A d \in Definition : /\ d.auth \in Auth /\ d.content \in Content \cup {Legacy}
                           /\ d.mode = "managed" => d = Managed(d.content, d.auth, d.card)
BY RegistryAssumption DEF Row, NoRow, Definition, Managed

LEMMA FormFields ==
  /\ \A form \in Form : /\ form.agent \in Agent /\ form.content \in Content
                        /\ form.auth \in Auth /\ form.fresh \in BOOLEAN
                        /\ form # Closed /\ [form EXCEPT !.fresh = FALSE] \in Form
                        /\ [form EXCEPT !.fresh = FALSE].fresh = FALSE
  /\ Closed.agent \notin Agent
<1>1. Closed.agent = "none" /\ Closed.agent \notin Agent
  BY RegistryAssumption DEF Closed
<1>2. ASSUME NEW form \in Form
      PROVE  /\ form.agent \in Agent /\ form.content \in Content
             /\ form.auth \in Auth /\ form.fresh \in BOOLEAN
             /\ [form EXCEPT !.fresh = FALSE] \in Form
             /\ [form EXCEPT !.fresh = FALSE].fresh = FALSE
  BY DEF Form
<1>3. QED
  BY <1>1, <1>2

LEMMA RegisteredRow ==
  ASSUME TypeOK, NEW a \in Agent, Registered(a)
  PROVE  rows[a] \in Row /\ rows[a].definition \in Definition /\ rows[a].revision \in Nat
BY RowFields DEF TypeOK, Registered

LEMMA ServedGateway ==
  ASSUME TypeOK, Serving
  PROVE  gateway \in Gateway
BY DEF TypeOK, Serving

(* What keeps the cards current while the Registry serves: the rows that   *)
(* change are removed, native, or get the card of its Gateway.             *)
StaysCurrent ==
  /\ gateway' = gateway
  /\ \A a \in Agent :
       \/ rows'[a] = rows[a]
       \/ ~IsManaged(rows[a])'
       \/ /\ rows'[a].definition.card = gateway
          /\ rows'[a].definition.content \in Content

LEMMA CardsKept ==
  ASSUME CardsCurrent, StaysCurrent
  PROVE  CardsCurrent'
<1> SUFFICES ASSUME Serving', NEW a \in Agent, IsManaged(rows[a])'
             PROVE  rows'[a].definition.card = gateway' /\ rows'[a].definition.content # Legacy
  BY DEF CardsCurrent
<1>1. gateway' = gateway /\ Serving
  BY DEF StaysCurrent, Serving
<1>2. CASE rows'[a] = rows[a]
  BY <1>1, <1>2 DEF CardsCurrent, IsManaged
<1>3. CASE rows'[a].definition.card = gateway /\ rows'[a].definition.content \in Content
  BY <1>1, <1>3, RegistryAssumption
<1>4. QED
  BY <1>2, <1>3 DEF StaysCurrent

-----------------------------------------------------------------------------
(* AgentRegistry.upsert. *)

LEMMA RevisionIsNumber ==
  ASSUME TypeOK, NEW a \in Agent, NEW definition, NEW token,
         Revision(a, definition, token) <= MaxRevision
  PROVE  /\ Revision(a, definition, token) \in 1 .. MaxRevision
         /\ Registered(a) =>
              \/ Revision(a, definition, token) > rows[a].revision
              \/ /\ Revision(a, definition, token) = rows[a].revision
                 /\ rows[a].definition = definition /\ token \in {NoToken, secrets[a]}
<1>1. CASE ~Registered(a)
  BY <1>1, RegistryAssumption DEF Revision
<1>2. CASE Registered(a)
  <2>1. rows[a].revision \in 1 .. MaxRevision
    BY <1>2, RegisteredRow, RowFields
  <2>2. QED
    BY <1>2, <2>1, RegistryAssumption DEF Revision
<1>3. QED
  BY <1>1, <1>2

LEMMA StoreFacts ==
  ASSUME TypeOK, NEW a \in Agent, NEW definition \in Definition, NEW token,
         Store(a, definition, token)
  PROVE  /\ rows' \in [Agent -> Row \cup {NoRow}]
         /\ rows'[a] \in Row /\ rows'[a].definition = definition
         /\ rows'[a].revision = Revision(a, definition, token)
         /\ \A b \in Agent : b # a => rows'[b] = rows[b]
<1> DEFINE row == [revision |-> Revision(a, definition, token), definition |-> definition]
<1>1. row \in Row /\ row.definition = definition /\ row.revision = Revision(a, definition, token)
  BY RevisionIsNumber DEF Store, Row
<1>2. rows' = [rows EXCEPT ![a] = row]
  BY DEF Store
<1> HIDE DEF row
<1>3. QED
  BY <1>1, <1>2 DEF TypeOK

LEMMA AuthTypes ==
  ASSUME NEW a \in Agent, NEW auth \in Auth, NEW token \in Token \cup {NoToken},
         NEW clear \in BOOLEAN, TypeOK
  PROVE  /\ ResolvedAuth(a, auth, token, clear) \in Auth
         /\ Secret(a, auth, token, clear) \in Token \cup {NoToken}
BY DEF ResolvedAuth, Secret, Auth, TypeOK

(* What an upsert of a managed agent leaves. *)
LEMMA UpsertFacts ==
  ASSUME TypeOK, Serving, NEW a \in Agent, NEW content \in Content, NEW auth \in Auth,
         NEW token \in Token \cup {NoToken}, NEW clear \in BOOLEAN,
         UpsertManaged(a, content, auth, token, clear)
  PROVE  /\ rows' \in [Agent -> Row \cup {NoRow}] /\ secrets' \in [Agent -> Token \cup {NoToken}]
         /\ rows'[a] \in Row
         /\ rows'[a].definition = Managed(content, ResolvedAuth(a, auth, token, clear), gateway)
         /\ secrets'[a] = Secret(a, auth, token, clear)
         /\ \A b \in Agent : b # a => rows'[b] = rows[b] /\ secrets'[b] = secrets[b]
<1> DEFINE definition == Managed(content, ResolvedAuth(a, auth, token, clear), gateway)
<1>1. definition \in Definition
  BY AuthTypes, ManagedFields, ServedGateway
<1>2. Store(a, definition, token) /\ secrets' = [secrets EXCEPT ![a] = Secret(a, auth, token, clear)]
  BY DEF UpsertManaged
<1> HIDE DEF definition
<1>3. /\ secrets' \in [Agent -> Token \cup {NoToken}] /\ secrets'[a] = Secret(a, auth, token, clear)
      /\ \A b \in Agent : b # a => secrets'[b] = secrets[b]
  BY <1>2, AuthTypes DEF TypeOK
<1>4. QED
  BY <1>1, <1>2, <1>3, StoreFacts DEF definition

LEMMA NativeFacts ==
  ASSUME TypeOK, NEW a \in Agent, NEW content \in Content, NEW card \in 0 .. MaxCard,
         UpsertNative(a, content, card)
  PROVE  /\ rows' \in [Agent -> Row \cup {NoRow}] /\ secrets' = secrets
         /\ rows'[a] \in Row
         /\ rows'[a].definition = Native(content, card)
         /\ \A b \in Agent : b # a => rows'[b] = rows[b]
BY NativeFields, StoreFacts DEF UpsertNative

(* The same agent, definition and token: the row does not change.          *)
LEMMA SameRow ==
  ASSUME TypeOK, NEW a \in Agent, Registered(a), rows'[a] \in Row,
         rows'[a].definition = rows[a].definition, rows'[a].revision = rows[a].revision
  PROVE  rows'[a] = rows[a]
BY RegisteredRow, RowFields

(* An upsert leaves the revision only with everything it stands for.       *)
LEMMA UpsertCounts ==
  ASSUME TypeOK, Serving, NEW a \in Agent, NEW content \in Content, NEW auth \in Auth,
         NEW token \in Token \cup {NoToken}, NEW clear \in BOOLEAN,
         UpsertManaged(a, content, auth, token, clear)
  PROVE  RevisionCounts
<1> SUFFICES ASSUME NEW b \in Agent, Registered(b), Registered(b)'
             PROVE  \/ rows'[b].revision > rows[b].revision
                    \/ rows'[b] = rows[b] /\ Credential(b)' = Credential(b)
  BY DEF RevisionCounts
<1>1. CASE b # a
  BY <1>1, UpsertFacts DEF Credential, Refers, Registered
<1>2. CASE b = a
  <2> DEFINE definition == Managed(content, ResolvedAuth(a, auth, token, clear), gateway)
  <2>1. /\ rows'[a] \in Row /\ rows'[a].definition = definition
        /\ secrets'[a] = Secret(a, auth, token, clear)
    BY UpsertFacts
  <2>2. /\ rows'[a].revision = Revision(a, definition, token)
        /\ Revision(a, definition, token) <= MaxRevision
    BY AuthTypes, ManagedFields, ServedGateway, StoreFacts DEF UpsertManaged, Store
  <2>3. definition.auth = ResolvedAuth(a, auth, token, clear)
    BY ManagedFields
  <2> HIDE DEF definition
  <2>4. CASE rows'[a].revision > rows[a].revision
    BY <1>2, <2>4
  <2>5. CASE /\ rows'[a].revision = rows[a].revision /\ rows[a].definition = definition
             /\ token \in {NoToken, secrets[a]}
    <3>1. rows'[a] = rows[a]
      BY <1>2, <2>1, <2>5, SameRow
    <3>2. Refers(a)' <=> Refers(a)
      BY <3>1 DEF Refers, Registered
    <3>3. Refers(a) => ResolvedAuth(a, auth, token, clear) = "ref"
      BY <2>3, <2>5 DEF Refers
    <3>4. Refers(a) => secrets'[a] = secrets[a]
      BY <2>1, <2>5, <3>3 DEF ResolvedAuth, Secret
    <3>5. QED
      BY <1>2, <3>1, <3>2, <3>4 DEF Credential
  <2>6. QED
    BY <1>2, <2>2, <2>4, <2>5, RevisionIsNumber
<1>3. QED
  BY <1>1, <1>2

LEMMA NativeCounts ==
  ASSUME TypeOK, NEW a \in Agent, NEW content \in Content, NEW card \in 0 .. MaxCard,
         UpsertNative(a, content, card)
  PROVE  RevisionCounts
<1> SUFFICES ASSUME NEW b \in Agent, Registered(b), Registered(b)'
             PROVE  \/ rows'[b].revision > rows[b].revision
                    \/ rows'[b] = rows[b] /\ Credential(b)' = Credential(b)
  BY DEF RevisionCounts
<1>1. CASE b # a
  BY <1>1, NativeFacts DEF Credential, Refers, Registered
<1>2. CASE b = a
  <2> DEFINE definition == Native(content, card)
  <2>1. rows'[a] \in Row /\ rows'[a].definition = definition /\ secrets' = secrets
    BY NativeFacts
  <2>2. /\ rows'[a].revision = Revision(a, definition, NoToken)
        /\ Revision(a, definition, NoToken) <= MaxRevision
    BY NativeFields, StoreFacts DEF UpsertNative, Store
  <2> HIDE DEF definition
  <2>3. CASE rows'[a].revision > rows[a].revision
    BY <1>2, <2>3
  <2>4. CASE rows'[a].revision = rows[a].revision /\ rows[a].definition = definition
    <3>1. rows'[a] = rows[a]
      BY <1>2, <2>1, <2>4, SameRow
    <3>2. QED
      BY <1>2, <2>1, <3>1 DEF Credential, Refers, Registered
  <2>5. QED
    BY <1>2, <2>2, <2>3, <2>4, RevisionIsNumber
<1>3. QED
  BY <1>1, <1>2

LEMMA UpsertStays ==
  ASSUME TypeOK, Serving, NEW a \in Agent, NEW content \in Content, NEW auth \in Auth,
         NEW token \in Token \cup {NoToken}, NEW clear \in BOOLEAN,
         UpsertManaged(a, content, auth, token, clear), gateway' = gateway
  PROVE  StaysCurrent
<1>1. /\ rows'[a].definition = Managed(content, ResolvedAuth(a, auth, token, clear), gateway)
      /\ \A b \in Agent : b # a => rows'[b] = rows[b]
  BY UpsertFacts
<1>2. rows'[a].definition.card = gateway /\ rows'[a].definition.content \in Content
  BY <1>1, ManagedFields
<1>3. QED
  BY <1>1, <1>2 DEF StaysCurrent

LEMMA NativeStays ==
  ASSUME TypeOK, NEW a \in Agent, NEW content \in Content, NEW card \in 0 .. MaxCard,
         UpsertNative(a, content, card), gateway' = gateway
  PROVE  StaysCurrent
<1>1. /\ rows'[a].definition.mode = "native"
      /\ \A b \in Agent : b # a => rows'[b] = rows[b]
  BY NativeFacts, NativeFields
<1>2. QED
  BY <1>1 DEF StaysCurrent, IsManaged

LEMMA UnchangedCounts ==
  ASSUME TypeOK,
         \A a \in Agent : rows'[a] = NoRow \/ (rows'[a] = rows[a] /\ secrets'[a] = secrets[a])
  PROVE  RevisionCounts
BY DEF RevisionCounts, Credential, Refers, Registered

-----------------------------------------------------------------------------
(* What an upsert does to the credentials. *)

LEMMA UpsertMatches ==
  ASSUME TypeOK, Serving, CredentialsMatch, NEW a \in Agent, NEW content \in Content, NEW auth \in Auth,
         NEW token \in Token \cup {NoToken}, NEW clear \in BOOLEAN,
         UpsertManaged(a, content, auth, token, clear),
         crossed \subseteq crossed',
         auth = "ref" /\ token = NoToken => a \in crossed' \/ secrets[a] # NoToken
  PROVE  CredentialsMatch'
<1>1. /\ rows'[a] \in Row
      /\ rows'[a].definition = Managed(content, ResolvedAuth(a, auth, token, clear), gateway)
      /\ secrets'[a] = Secret(a, auth, token, clear)
      /\ \A b \in Agent : b # a => rows'[b] = rows[b] /\ secrets'[b] = secrets[b]
  BY UpsertFacts
<1>2. rows'[a].definition.auth = ResolvedAuth(a, auth, token, clear) /\ rows'[a] # NoRow
  BY <1>1, ManagedFields, RowFields
<1>3. ResolvedAuth(a, auth, token, clear) = "ref" /\ a \notin crossed'
        => Secret(a, auth, token, clear) # NoToken
  <2>1. CASE token # NoToken
    BY <2>1 DEF ResolvedAuth, Secret
  <2>2. CASE token = NoToken
    <3>1. SUFFICES ASSUME ResolvedAuth(a, auth, token, clear) = "ref", a \notin crossed'
                   PROVE  Secret(a, auth, token, clear) # NoToken
      OBVIOUS
    <3>2. auth # "env" /\ ~clear /\ (auth = "ref" \/ Refers(a))
      BY <2>2, <3>1 DEF ResolvedAuth
    <3>3. secrets[a] # NoToken
      BY <2>2, <3>1, <3>2 DEF CredentialsMatch, CredentialResolves
    <3>4. QED
      BY <2>2, <3>2, <3>3 DEF Secret
  <2>3. QED
    BY <2>1, <2>2
<1>4. CredentialResolves'
  <2> SUFFICES ASSUME NEW b \in Agent, Refers(b)', b \notin crossed'
               PROVE  secrets'[b] # NoToken
    BY DEF CredentialResolves
  <2>1. CASE b = a
    BY <1>1, <1>2, <1>3, <2>1 DEF Refers
  <2>2. CASE b # a
    BY <1>1, <2>2 DEF Refers, Registered, CredentialsMatch, CredentialResolves
  <2>3. QED
    BY <2>1, <2>2
<1>5. NoOrphanSecret'
  BY <1>1, <1>2 DEF NoOrphanSecret, Registered, CredentialsMatch
<1>6. QED
  BY <1>4, <1>5 DEF CredentialsMatch

LEMMA NativeMatches ==
  ASSUME TypeOK, CredentialsMatch, NEW a \in Agent, NEW content \in Content,
         NEW card \in 0 .. MaxCard, UpsertNative(a, content, card), crossed' = crossed
  PROVE  CredentialsMatch'
<1>1. /\ rows'[a] # NoRow /\ rows'[a].definition.auth = "none" /\ secrets' = secrets
      /\ \A b \in Agent : b # a => rows'[b] = rows[b]
  BY NativeFacts, NativeFields, RowFields
<1>2. QED
  BY <1>1 DEF CredentialsMatch, CredentialResolves, NoOrphanSecret, Refers, Registered

-----------------------------------------------------------------------------
(* The forms under an agent that changes are closed or overtaken. *)

Overtaken(a) ==
  /\ forms' = [f \in Editor |-> forms'[f]]
  /\ \A f \in Editor :
       \/ forms'[f] = Closed
       \/ forms'[f] = forms[f] /\ forms[f].agent # a
       \/ forms[f] \in Form /\ forms'[f] = [forms[f] EXCEPT !.fresh = FALSE]

LEMMA OvertakenForms ==
  ASSUME TypeOK, FormsResolve, NEW a \in Agent, Overtaken(a),
         \A b \in Agent : b # a => secrets'[b] = secrets[b],
         crossed \subseteq crossed'
  PROVE  forms' \in [Editor -> Form \cup {Closed}] /\ FormsResolve'
<1>1. ASSUME NEW f \in Editor
      PROVE  forms'[f] \in Form \cup {Closed}
  BY FormFields DEF Overtaken, TypeOK
<1>2. forms' \in [Editor -> Form \cup {Closed}]
  BY <1>1 DEF Overtaken
<1>3. ASSUME NEW f \in Editor, forms'[f] # Closed, forms'[f].fresh,
             forms'[f].auth = "ref", forms'[f].agent \notin crossed'
      PROVE  secrets'[forms'[f].agent] # NoToken
  <2>1. forms'[f] = forms[f] /\ forms[f].agent # a
    BY <1>3, FormFields DEF Overtaken
  <2>2. forms[f] \in Form /\ forms[f].agent \in Agent
    BY <1>3, <2>1, FormFields DEF TypeOK
  <2>3. QED
    BY <1>3, <2>1, <2>2 DEF FormsResolve
<1>4. QED
  BY <1>2, <1>3 DEF FormsResolve

LEMMA OvertakesOvertakes ==
  ASSUME TypeOK, NEW e \in Editor, NEW a \in Agent, Overtakes(e, a)
  PROVE  Overtaken(a)
<1>1. ASSUME NEW f \in Editor
      PROVE  \/ forms'[f] = Closed
             \/ forms'[f] = forms[f] /\ forms[f].agent # a
             \/ forms[f] \in Form /\ forms'[f] = [forms[f] EXCEPT !.fresh = FALSE]
  <2>1. forms'[f] = CASE f = e -> Closed
                      [] f # e /\ forms[f].agent = a -> [forms[f] EXCEPT !.fresh = FALSE]
                      [] OTHER -> forms[f]
    BY DEF Overtakes
  <2>2. forms[f].agent = a => forms[f] \in Form
    BY FormFields DEF TypeOK
  <2>3. QED
    BY <2>1, <2>2
<1>2. QED
  BY <1>1 DEF Overtaken, Overtakes

(* A form that closes leaves the others as they are. *)
LEMMA ClosedForms ==
  ASSUME TypeOK, FormsResolve, NEW e \in Editor, Closes(e), secrets' = secrets, crossed' = crossed
  PROVE  forms' \in [Editor -> Form \cup {Closed}] /\ FormsResolve'
BY DEF Closes, TypeOK, FormsResolve

-----------------------------------------------------------------------------
(* Every step of an administrator and of the process. *)

Safe == TypeOK /\ CredentialsMatch /\ FormsResolve

LEMMA InitSafe == Init => Safe
<1> SUFFICES ASSUME Init PROVE Safe
  OBVIOUS
<1>1. TypeOK
  <2>1. LegacyRow \subseteq Row
    <3> SUFFICES ASSUME NEW auth \in Auth, NEW url \in Gateway
                 PROVE  [revision |-> 1, definition |-> Managed(Legacy, auth, url)] \in Row
      BY DEF LegacyRow
    <3>1. Managed(Legacy, auth, url) \in Definition
      BY ManagedFields
    <3>2. QED
      BY <3>1, RegistryAssumption DEF Row
  <2>2. rows \in [Agent -> Row \cup {NoRow}]
    BY <2>1 DEF Init
  <2>3. forms \in [Editor -> Form \cup {Closed}] /\ provider \in [Agent -> 1 .. MaxCard]
    BY RegistryAssumption DEF Init
  <2>4. QED
    BY <2>2, <2>3 DEF Init, TypeOK
<1>2. CredentialsMatch
  BY DEF Init, CredentialsMatch, CredentialResolves, NoOrphanSecret, Refers
<1>3. FormsResolve
  BY DEF Init, FormsResolve
<1>4. QED
  BY <1>1, <1>2, <1>3 DEF Safe

LEMMA QuietStep ==
  ASSUME Safe, UNCHANGED registryVars, UNCHANGED crossed, UNCHANGED gateway
  PROVE  CredentialsMatch' /\ RevisionCounts /\ StaysCurrent
BY UnchangedCounts DEF Safe, registryVars, CredentialsMatch, CredentialResolves, NoOrphanSecret,
                       Refers, Registered, StaysCurrent

LEMMA UnchangedSafe ==
  ASSUME Safe, UNCHANGED vars
  PROVE  Safe' /\ RevisionCounts /\ StaysCurrent
<1>1. TypeOK' /\ FormsResolve'
  BY DEF Safe, vars, registryVars, TypeOK, FormsResolve
<1>2. QED
  BY <1>1, QuietStep DEF Safe, vars

LEMMA OpenStep ==
  ASSUME Safe, NEW e \in Editor, NEW a \in Agent, Open(e, a)
  PROVE  Safe' /\ RevisionCounts /\ StaysCurrent
<1>1. PICK content \in Content :
        forms' = [forms EXCEPT ![e] =
            [agent |-> a, content |-> content,
             auth |-> IF Registered(a) THEN rows[a].definition.auth ELSE "none",
             fresh |-> TRUE]]
  BY DEF Open
<1> DEFINE form == [agent |-> a, content |-> content,
                    auth |-> IF Registered(a) THEN rows[a].definition.auth ELSE "none",
                    fresh |-> TRUE]
<1>2. form.agent = a /\ form \in Form /\ (form.auth = "ref" => Refers(a))
  <2>1. (IF Registered(a) THEN rows[a].definition.auth ELSE "none") \in Auth
    BY RegisteredRow, RowFields DEF Safe, Auth
  <2>2. QED
    BY <2>1 DEF Form, Refers
<1>3. forms' = [forms EXCEPT ![e] = form]
  BY <1>1
<1> HIDE DEF form
<1>4. forms' \in [Editor -> Form \cup {Closed}]
  BY <1>2, <1>3 DEF Safe, TypeOK
<1>5. UNCHANGED <<registryVars, fetches, provider, gateway, crossed>>
  BY DEF Open
<1>6. TypeOK'
  BY <1>4, <1>5 DEF Safe, TypeOK, registryVars
<1>7. FormsResolve'
  <2> SUFFICES ASSUME NEW f \in Editor, forms'[f] # Closed, forms'[f].fresh,
                      forms'[f].auth = "ref", forms'[f].agent \notin crossed'
               PROVE  secrets'[forms'[f].agent] # NoToken
    BY DEF FormsResolve
  <2>1. CASE f = e
    <3>1. forms'[f] = form
      BY <1>3, <2>1 DEF Safe, TypeOK
    <3>2. Refers(a) /\ a \notin crossed
      BY <1>2, <1>5, <3>1
    <3>3. QED
      BY <1>2, <1>5, <3>1, <3>2 DEF Safe, CredentialsMatch, CredentialResolves, registryVars
  <2>2. CASE f # e
    BY <1>3, <1>5, <2>2 DEF Safe, TypeOK, FormsResolve, registryVars
  <2>3. QED
    BY <2>1, <2>2
<1>8. QED
  BY <1>5, <1>6, <1>7, QuietStep DEF Safe

LEMMA CancelStep ==
  ASSUME Safe, NEW e \in Editor, Cancel(e)
  PROVE  Safe' /\ RevisionCounts /\ StaysCurrent
<1>1. forms' \in [Editor -> Form \cup {Closed}] /\ FormsResolve'
  BY ClosedForms DEF Safe, Cancel, registryVars
<1>2. TypeOK'
  BY <1>1 DEF Safe, Cancel, TypeOK, registryVars
<1>3. QED
  BY <1>1, <1>2, QuietStep DEF Safe, Cancel

LEMMA SaveManagedStep ==
  ASSUME Safe, Serving, NEW e \in Editor, NEW content \in Content, NEW env \in BOOLEAN,
         NEW token \in Token \cup {NoToken}, NEW clear \in BOOLEAN,
         SaveManaged(e, content, env, token, clear)
  PROVE  Safe' /\ RevisionCounts /\ StaysCurrent
<1> DEFINE form == forms[e]
           auth == CASE env -> "env"
                     [] ~env /\ form.auth = "ref" -> "ref"
                     [] OTHER -> "none"
<1>1. /\ form # Closed
      /\ UpsertManaged(form.agent, content, auth, token, clear)
      /\ Overtakes(e, form.agent)
      /\ crossed' = IF form.fresh THEN crossed ELSE crossed \cup {form.agent}
      /\ UNCHANGED <<fetches, provider, gateway>>
  BY DEF SaveManaged
<1>2. form \in Form /\ form.agent \in Agent /\ auth \in Auth /\ form.fresh \in BOOLEAN
  BY <1>1, FormFields DEF Safe, TypeOK, Auth
<1>3. auth = "ref" => form.auth = "ref"
  OBVIOUS
<1>4. form # Closed /\ form.fresh /\ form.auth = "ref" /\ form.agent \notin crossed
        => secrets[form.agent] # NoToken
  BY DEF Safe, FormsResolve
<1> HIDE DEF form, auth
<1>5. crossed \subseteq crossed' /\ crossed' \in SUBSET Agent
  BY <1>1, <1>2 DEF Safe, TypeOK
<1>6. auth = "ref" /\ token = NoToken => form.agent \in crossed' \/ secrets[form.agent] # NoToken
  BY <1>1, <1>2, <1>3, <1>4
<1>7. TypeOK /\ Serving /\ CredentialsMatch /\ FormsResolve
  BY DEF Safe
<1>8. /\ rows' \in [Agent -> Row \cup {NoRow}] /\ secrets' \in [Agent -> Token \cup {NoToken}]
      /\ \A b \in Agent : b # form.agent => secrets'[b] = secrets[b]
  <2>1. PICK a \in Agent, way \in Auth : a = form.agent /\ way = auth
    BY <1>2
  <2>2. UpsertManaged(a, content, way, token, clear)
    BY <1>1, <2>1
  <2>3. /\ rows' \in [Agent -> Row \cup {NoRow}] /\ secrets' \in [Agent -> Token \cup {NoToken}]
        /\ \A b \in Agent : b # a => secrets'[b] = secrets[b]
    BY <1>7, <2>2, UpsertFacts
  <2>4. QED
    BY <2>1, <2>3
<1>9. Overtaken(form.agent)
  BY <1>1, <1>2, <1>7, OvertakesOvertakes
<1>10. forms' \in [Editor -> Form \cup {Closed}] /\ FormsResolve'
  BY <1>2, <1>5, <1>7, <1>8, <1>9, OvertakenForms
<1>11. CredentialsMatch'
  BY <1>1, <1>2, <1>5, <1>6, <1>7, UpsertMatches
<1>12. TypeOK'
  BY <1>1, <1>5, <1>7, <1>8, <1>10 DEF TypeOK
<1>13. RevisionCounts /\ StaysCurrent
  BY <1>1, <1>2, <1>7, UpsertCounts, UpsertStays
<1>14. QED
  BY <1>10, <1>11, <1>12, <1>13 DEF Safe

LEMMA SaveNativeStep ==
  ASSUME Safe, NEW e \in Editor, NEW content \in Content, SaveNative(e, content)
  PROVE  Safe' /\ RevisionCounts /\ StaysCurrent
<1>1. forms' \in [Editor -> Form \cup {Closed}] /\ FormsResolve'
  BY ClosedForms DEF Safe, SaveNative, registryVars
<1>2. [agent |-> forms[e].agent, content |-> content, card |-> 0]
        \in [agent: Agent, content: Content, card: 0 .. MaxCard]
  <2>1. forms[e].agent \in Agent
    BY FormFields DEF Safe, SaveNative, TypeOK
  <2>2. QED
    BY <2>1, RegistryAssumption
<1>3. TypeOK'
  BY <1>1, <1>2 DEF Safe, SaveNative, TypeOK, registryVars
<1>4. QED
  BY <1>1, <1>3, QuietStep DEF Safe, SaveNative

LEMMA CardFetchedStep ==
  ASSUME Safe, NEW f \in fetches, CardFetched(f)
  PROVE  Safe' /\ RevisionCounts /\ StaysCurrent
<1>1. [f EXCEPT !.card = provider[f.agent]] \in [agent: Agent, content: Content, card: 0 .. MaxCard]
  <2>1. f \in [agent: Agent, content: Content, card: 0 .. MaxCard]
    BY DEF Safe, TypeOK
  <2>2. provider[f.agent] \in 1 .. MaxCard
    BY <2>1 DEF Safe, TypeOK
  <2>3. QED
    BY <2>1, <2>2, RegistryAssumption
<1>2. TypeOK' /\ FormsResolve'
  BY <1>1 DEF Safe, CardFetched, TypeOK, FormsResolve, registryVars
<1>3. QED
  BY <1>2, QuietStep DEF Safe, CardFetched

LEMMA CardStoredStep ==
  ASSUME Safe, NEW f \in fetches, CardStored(f)
  PROVE  Safe' /\ RevisionCounts /\ StaysCurrent
<1>1. f.agent \in Agent /\ f.content \in Content /\ f.card \in 0 .. MaxCard
  BY DEF Safe, TypeOK
<1>2. UpsertNative(f.agent, f.content, f.card) /\ UNCHANGED <<forms, provider, gateway, crossed>>
  BY DEF CardStored
<1>3. rows' \in [Agent -> Row \cup {NoRow}] /\ secrets' = secrets
  BY <1>1, <1>2, NativeFacts DEF Safe
<1>4. TypeOK' /\ FormsResolve'
  BY <1>2, <1>3 DEF Safe, CardStored, TypeOK, FormsResolve
<1>5. CredentialsMatch' /\ RevisionCounts /\ StaysCurrent
  BY <1>1, <1>2, NativeMatches, NativeCounts, NativeStays DEF Safe
<1>6. QED
  BY <1>4, <1>5 DEF Safe

LEMMA FetchFailsStep ==
  ASSUME Safe, NEW f \in fetches, FetchFails(f)
  PROVE  Safe' /\ RevisionCounts /\ StaysCurrent
<1>1. TypeOK' /\ FormsResolve'
  BY DEF Safe, FetchFails, TypeOK, FormsResolve, registryVars
<1>2. QED
  BY <1>1, QuietStep DEF Safe, FetchFails

LEMMA NewCardStep ==
  ASSUME Safe, NEW a \in Agent, NewCard(a)
  PROVE  Safe' /\ RevisionCounts /\ StaysCurrent
<1>1. provider' \in [Agent -> 1 .. MaxCard]
  <2>1. provider[a] \in 1 .. MaxCard /\ provider[a] < MaxCard
    BY DEF Safe, TypeOK, NewCard
  <2>2. provider[a] + 1 \in 1 .. MaxCard
    BY <2>1, RegistryAssumption
  <2>3. QED
    BY <2>2 DEF Safe, TypeOK, NewCard
<1>2. TypeOK' /\ FormsResolve'
  BY <1>1 DEF Safe, NewCard, TypeOK, FormsResolve, registryVars
<1>3. QED
  BY <1>2, QuietStep DEF Safe, NewCard

LEMMA DeleteStep ==
  ASSUME Safe, NEW e \in Editor, NEW a \in Agent, Delete(e, a)
  PROVE  Safe' /\ RevisionCounts /\ StaysCurrent
<1>1. /\ rows' = [rows EXCEPT ![a] = NoRow] /\ secrets' = [secrets EXCEPT ![a] = NoToken]
      /\ UNCHANGED <<fetches, provider, gateway, crossed>>
  BY DEF Delete
<1>2. /\ rows'[a] = NoRow /\ secrets'[a] = NoToken
      /\ \A b \in Agent : b # a => rows'[b] = rows[b] /\ secrets'[b] = secrets[b]
  BY <1>1 DEF Safe, TypeOK
<1>3. Overtaken(a)
  BY OvertakesOvertakes DEF Safe, Delete
<1>4. forms' \in [Editor -> Form \cup {Closed}] /\ FormsResolve'
  BY <1>1, <1>2, <1>3, OvertakenForms DEF Safe
<1>5. TypeOK'
  BY <1>1, <1>4 DEF Safe, TypeOK
<1>6. CredentialsMatch'
  BY <1>1, <1>2 DEF Safe, CredentialsMatch, CredentialResolves, NoOrphanSecret, Refers, Registered
<1>7. RevisionCounts /\ StaysCurrent
  BY <1>1, <1>2, UnchangedCounts DEF Safe, StaysCurrent, IsManaged
<1>8. QED
  BY <1>4, <1>5, <1>6, <1>7 DEF Safe

(* What a start makes of a row: nothing of one that is not managed, and    *)
(* nothing of one whose card and content are as they should be.            *)
LEMMA RestartedFields ==
  ASSUME NEW row \in Row \cup {NoRow}, NEW url \in Gateway
  PROVE  LET new == Restarted(row, url) IN
         /\ new \in Row \cup {NoRow} /\ (new = NoRow <=> row = NoRow)
         /\ ~IsManaged(row) => new = row
         /\ row # NoRow => new.definition.auth = row.definition.auth
         /\ IsManaged(row) =>
              /\ new.revision = row.revision
              /\ new.definition = Managed(Migrate(row.definition.content), row.definition.auth, url)
              /\ row.definition.card = url /\ row.definition.content # Legacy => new = row
<1>1. CASE ~IsManaged(row)
  BY <1>1 DEF Restarted
<1>2. CASE IsManaged(row)
  <2> DEFINE old == row.definition
             made == Managed(Migrate(old.content), old.auth, url)
  <2>1. row \in Row /\ row # NoRow /\ old.mode = "managed"
    BY <1>2 DEF IsManaged
  <2>2. /\ row = [revision |-> row.revision, definition |-> old]
        /\ row.revision \in 1 .. MaxRevision /\ old \in Definition
    BY <2>1, RowFields
  <2>3. old.auth \in Auth /\ old.content \in Content \cup {Legacy} /\ old = Managed(old.content, old.auth, old.card)
    BY <2>1, <2>2, RowFields
  <2>4. Migrate(old.content) \in Content
    BY <2>3, RegistryAssumption DEF Migrate
  <2>5. made \in Definition /\ made.auth = old.auth
    BY <2>3, <2>4, ManagedFields
  <2>6. old.card = url /\ old.content # Legacy => made = old
    BY <2>3 DEF Migrate
  <2>7. Restarted(row, url) = [row EXCEPT !.definition = made]
    BY <1>2 DEF Restarted
  <2> HIDE DEF made, old
  <2>8. Restarted(row, url) = [revision |-> row.revision, definition |-> made]
    BY <2>2, <2>7
  <2>9. Restarted(row, url) \in Row
    BY <2>2, <2>5, <2>8 DEF Row
  <2>10. Restarted(row, url) # NoRow
    BY <2>9, RowFields
  <2>11. QED
    BY <1>2, <2>1, <2>2, <2>5, <2>6, <2>8, <2>9, <2>10 DEF made, old
<1>3. QED
  BY <1>1, <1>2

(* A start, the agent of the bootstrap file having no token when it is not *)
(* registered.                                                             *)
LEMMA StartFacts ==
  ASSUME Safe, Restart
  PROVE  /\ gateway' \in Gateway /\ secrets' = secrets /\ rows' \in [Agent -> Row \cup {NoRow}]
         /\ \A a \in Agent : Registered(a) => rows'[a] = Restarted(rows[a], gateway')
         /\ \A a \in Agent : ~Registered(a) =>
              \/ rows'[a] = NoRow
              \/ /\ a = Bootstrap /\ rows'[a] \in Row
                 /\ \E content \in Content : rows'[a].definition = Managed(content, "env", gateway')
<1>1. PICK url \in Gateway, content \in Content :
        /\ gateway' = url
        /\ rows' = [a \in Agent |->
             IF a = Bootstrap /\ ~Registered(a)
             THEN Seeded(content, url) ELSE Restarted(rows[a], url)]
        /\ secrets' = IF Registered(Bootstrap) THEN secrets
                      ELSE [secrets EXCEPT ![Bootstrap] = NoToken]
  BY DEF Restart
<1>2. /\ secrets \in [Agent -> Token \cup {NoToken}] /\ rows \in [Agent -> Row \cup {NoRow}]
      /\ ~Registered(Bootstrap) => secrets[Bootstrap] = NoToken
  BY RegistryAssumption DEF Safe, TypeOK, CredentialsMatch, NoOrphanSecret
<1>3. secrets' = secrets
  BY <1>1, <1>2
<1>4. Seeded(content, url) \in Row /\ Seeded(content, url).definition = Managed(content, "env", url)
  <2>1. "env" \in Auth
    BY DEF Auth
  <2>2. Managed(content, "env", url) \in Definition
    BY <2>1, ManagedFields
  <2>3. QED
    BY <2>2, RegistryAssumption DEF Seeded, Row
<1>5. ASSUME NEW a \in Agent
      PROVE  /\ rows'[a] \in Row \cup {NoRow}
             /\ Registered(a) => rows'[a] = Restarted(rows[a], url)
             /\ ~Registered(a) => rows'[a] = NoRow \/ (a = Bootstrap /\ rows'[a] = Seeded(content, url))
  <2>1. rows[a] \in Row \cup {NoRow} /\ Restarted(rows[a], url) \in Row \cup {NoRow}
        /\ (Restarted(rows[a], url) = NoRow <=> rows[a] = NoRow)
    BY <1>2, RestartedFields
  <2>2. rows'[a] = IF a = Bootstrap /\ ~Registered(a)
                   THEN Seeded(content, url) ELSE Restarted(rows[a], url)
    BY <1>1
  <2>3. QED
    BY <1>4, <2>1, <2>2 DEF Registered
<1>6. rows' \in [Agent -> Row \cup {NoRow}]
  BY <1>1, <1>5
<1>7. QED
  BY <1>1, <1>3, <1>4, <1>5, <1>6

LEMMA RestartStep ==
  ASSUME Safe, CardsCurrent, Restart
  PROVE  Safe' /\ RevisionCounts /\ CardsCurrent'
<1>1. /\ gateway' \in Gateway /\ secrets' = secrets /\ rows' \in [Agent -> Row \cup {NoRow}]
      /\ rows \in [Agent -> Row \cup {NoRow}]
      /\ fetches' = {} /\ UNCHANGED <<forms, provider, crossed>>
  BY StartFacts DEF Restart, Safe, TypeOK
<1>2. ASSUME NEW a \in Agent, Registered(a)
      PROVE  /\ rows[a] \in Row \cup {NoRow} /\ rows'[a] = Restarted(rows[a], gateway')
             /\ Registered(a)' /\ rows'[a].definition.auth = rows[a].definition.auth
  BY <1>1, <1>2, StartFacts, RestartedFields DEF Registered
<1>3. ASSUME NEW a \in Agent, ~Registered(a), Registered(a)'
      PROVE  /\ rows'[a].definition.auth = "env" /\ rows'[a].definition.card = gateway'
             /\ rows'[a].definition.content \in Content
  BY <1>3, StartFacts, ManagedFields DEF Registered
<1>4. TypeOK' /\ FormsResolve'
  BY <1>1 DEF Safe, TypeOK, FormsResolve
<1>5. CredentialsMatch'
  BY <1>1, <1>2, <1>3 DEF Safe, CredentialsMatch, CredentialResolves, NoOrphanSecret, Refers
<1>6. CardsCurrent'
  <2> SUFFICES ASSUME NEW a \in Agent, IsManaged(rows[a])'
               PROVE  rows'[a].definition.card = gateway' /\ rows'[a].definition.content # Legacy
    BY DEF CardsCurrent
  <2>1. CASE Registered(a)
    <3>1. IsManaged(rows[a])
      BY <1>1, <1>2, <2>1, RestartedFields DEF IsManaged
    <3>2. rows'[a].definition = Managed(Migrate(rows[a].definition.content), rows[a].definition.auth, gateway')
      BY <1>1, <1>2, <2>1, <3>1, RestartedFields
    <3>3. Migrate(rows[a].definition.content) # Legacy
      BY RegistryAssumption DEF Migrate
    <3>4. QED
      BY <3>2, <3>3, ManagedFields
  <2>2. CASE ~Registered(a)
    BY <1>3, <2>2, RegistryAssumption DEF IsManaged, Registered
  <2>3. QED
    BY <2>1, <2>2
<1>7. RevisionCounts
  <2> SUFFICES ASSUME NEW a \in Agent, Registered(a)
               PROVE  \/ rows'[a] = rows[a] /\ Credential(a)' = Credential(a)
                      \/ gateway' # gateway /\ OnlyMoved(a)
    BY DEF RevisionCounts
  <2>1. Credential(a)' = Credential(a)
    BY <1>1, <1>2 DEF Credential, Refers
  <2>2. CASE ~IsManaged(rows[a])
    BY <1>1, <1>2, <2>1, <2>2, RestartedFields
  <2>3. CASE IsManaged(rows[a]) /\ gateway' = gateway
    <3>1. Serving
      BY <1>1, <2>3, RegistryAssumption DEF Serving
    <3>2. rows[a].definition.card = gateway' /\ rows[a].definition.content # Legacy
      BY <2>3, <3>1 DEF CardsCurrent
    <3>3. QED
      BY <1>1, <1>2, <2>1, <2>3, <3>2, RestartedFields
  <2>4. CASE IsManaged(rows[a]) /\ gateway' # gateway
    <3> DEFINE old == rows[a].definition
    <3>1. /\ rows'[a].revision = rows[a].revision
          /\ rows'[a].definition = Managed(Migrate(old.content), old.auth, gateway')
      BY <1>1, <1>2, <2>4, RestartedFields
    <3>2. /\ IsManaged(rows'[a]) /\ rows'[a].definition.auth = old.auth
          /\ rows'[a].definition.card = gateway'
          /\ rows'[a].definition.content = old.content \/ old.content = Legacy
      BY <1>2, <3>1, ManagedFields DEF IsManaged, Registered, Migrate
    <3>3. QED
      BY <2>1, <2>4, <3>1, <3>2 DEF OnlyMoved
  <2>5. QED
    BY <2>2, <2>3, <2>4
<1>8. QED
  BY <1>4, <1>5, <1>6, <1>7 DEF Safe

LEMMA AdminStep ==
  ASSUME Safe, Serving, AdminNext
  PROVE  Safe' /\ RevisionCounts /\ StaysCurrent
<1>1. CASE \E e \in Editor : EditorStep(e)
  <2>1. PICK e \in Editor : EditorStep(e)
    BY <1>1
  <2>2. CASE \E a \in Agent : Open(e, a) \/ Delete(e, a)
    BY <2>2, OpenStep, DeleteStep
  <2>3. CASE Cancel(e)
    BY <2>3, CancelStep
  <2>4. CASE \E content \in Content : SaveNative(e, content)
    BY <2>4, SaveNativeStep
  <2>5. CASE \E content \in Content, env \in BOOLEAN, clear \in BOOLEAN,
                token \in Token \cup {NoToken} : SaveManaged(e, content, env, token, clear)
    BY <2>5, SaveManagedStep
  <2>6. QED
    BY <2>1, <2>2, <2>3, <2>4, <2>5 DEF EditorStep
<1>2. CASE \E f \in fetches : CardFetched(f) \/ CardStored(f) \/ FetchFails(f)
  BY <1>2, CardFetchedStep, CardStoredStep, FetchFailsStep
<1>3. CASE \E a \in Agent : NewCard(a)
  BY <1>3, NewCardStep
<1>4. QED
  BY <1>1, <1>2, <1>3 DEF AdminNext

-----------------------------------------------------------------------------
(* Agents that register themselves. *)

(* The answer a registration is completed with. *)
Complete(r) ==
  /\ r \in Registration
  /\ r.manifest.kind = "native" => r.answer \in 0 .. MaxCard
  /\ r.manifest.kind = "probed" => r.answer \in Content

LEMMA RegistrationFields ==
  ASSUME NEW r \in Registration
  PROVE  /\ r.manifest \in Manifest /\ r.manifest.agent \in Agent /\ r.manifest.kind \in Kind
         /\ r.manifest.content \in Content /\ r.manifest.auth \in {"unset", "none", "env"}
         /\ r.token \in Token \cup {NoToken} /\ r.answer \in Content \cup 0 .. MaxCard
<1>1. r.manifest \in Manifest /\ r.token \in Token \cup {NoToken} /\ r.answer \in Content \cup 0 .. MaxCard
  BY DEF Registration
<1>2. r.manifest \in [agent: Agent, kind: Kind, content: Content, auth: {"unset", "none", "env"}]
  BY <1>1, OnboardingAssumption
<1>3. QED
  BY <1>1, <1>2

LEMMA BackendAuths ==
  ASSUME NEW r \in Registration
  PROVE  BackendAuth(r) \in Auth /\ (BackendAuth(r) = "ref" <=> r.token # NoToken)
BY RegistrationFields DEF BackendAuth, Auth

LEMMA UpsertsSplit ==
  ASSUME NEW r, Complete(r), Upserts(r)
  PROVE  \/ /\ r.manifest.kind = "native" /\ r.answer \in 0 .. MaxCard
            /\ UpsertNative(r.manifest.agent, r.manifest.content, r.answer)
         \/ /\ r.manifest.kind # "native" /\ ContentOf(r) \in Content
            /\ UpsertManaged(r.manifest.agent, ContentOf(r), BackendAuth(r), r.token, FALSE)
BY RegistrationFields DEF Complete, Upserts, ContentOf

(* What a registration leaves is safe for the administrators. *)
LEMMA RegistersSafe ==
  ASSUME Safe, Serving, NEW r, Complete(r), Registers(r)
  PROVE  /\ Safe' /\ RevisionCounts /\ StaysCurrent
         /\ \A b \in Agent : b # r.manifest.agent => rows'[b] = rows[b] /\ secrets'[b] = secrets[b]
<1> DEFINE a == r.manifest.agent
<1>1. r \in Registration /\ a \in Agent /\ r.manifest.content \in Content
      /\ r.token \in Token \cup {NoToken} /\ BackendAuth(r) \in Auth
      /\ (BackendAuth(r) = "ref" => r.token # NoToken) /\ FALSE \in BOOLEAN
  BY RegistrationFields, BackendAuths DEF Complete
<1>2. Upserts(r) /\ UNCHANGED <<fetches, provider, gateway, crossed>>
      /\ forms' = [e \in Editor |-> IF forms[e].agent = a
                                    THEN [forms[e] EXCEPT !.fresh = FALSE] ELSE forms[e]]
  BY DEF Registers
<1>3. TypeOK /\ Serving /\ CredentialsMatch /\ FormsResolve
  BY DEF Safe
<1> HIDE DEF a
<1>4. /\ rows' \in [Agent -> Row \cup {NoRow}] /\ secrets' \in [Agent -> Token \cup {NoToken}]
      /\ \A b \in Agent : b # a => rows'[b] = rows[b] /\ secrets'[b] = secrets[b]
      /\ CredentialsMatch' /\ RevisionCounts /\ StaysCurrent
  <2>1. CASE /\ r.manifest.kind = "native" /\ r.answer \in 0 .. MaxCard
             /\ UpsertNative(a, r.manifest.content, r.answer)
    <3>1. /\ rows' \in [Agent -> Row \cup {NoRow}] /\ secrets' = secrets
          /\ \A b \in Agent : b # a => rows'[b] = rows[b]
      BY <1>1, <1>3, <2>1, NativeFacts
    <3>2. CredentialsMatch' /\ RevisionCounts /\ StaysCurrent
      BY <1>1, <1>2, <1>3, <2>1, NativeMatches, NativeCounts, NativeStays
    <3>3. QED
      BY <1>3, <3>1, <3>2 DEF TypeOK
  <2>2. CASE /\ r.manifest.kind # "native" /\ ContentOf(r) \in Content
             /\ UpsertManaged(a, ContentOf(r), BackendAuth(r), r.token, FALSE)
    <3>1. /\ rows' \in [Agent -> Row \cup {NoRow}] /\ secrets' \in [Agent -> Token \cup {NoToken}]
          /\ \A b \in Agent : b # a => rows'[b] = rows[b] /\ secrets'[b] = secrets[b]
      BY <1>1, <1>3, <2>2, UpsertFacts
    <3>2. CredentialsMatch'
      BY <1>1, <1>2, <1>3, <2>2, UpsertMatches
    <3>3. RevisionCounts /\ StaysCurrent
      BY <1>1, <1>2, <1>3, <2>2, UpsertCounts, UpsertStays
    <3>4. QED
      BY <3>1, <3>2, <3>3
  <2>3. QED
    BY <1>2, <2>1, <2>2, UpsertsSplit DEF a
<1>5. Overtaken(a)
  <2>1. ASSUME NEW f \in Editor
        PROVE  \/ forms'[f] = Closed
               \/ forms'[f] = forms[f] /\ forms[f].agent # a
               \/ forms[f] \in Form /\ forms'[f] = [forms[f] EXCEPT !.fresh = FALSE]
    <3>1. forms'[f] = IF forms[f].agent = a THEN [forms[f] EXCEPT !.fresh = FALSE] ELSE forms[f]
      BY <1>2
    <3>2. forms[f].agent = a => forms[f] \in Form
      BY <1>1, <1>3, FormFields DEF TypeOK
    <3>3. QED
      BY <3>1, <3>2
  <2>2. QED
    BY <1>2, <2>1 DEF Overtaken
<1>6. forms' \in [Editor -> Form \cup {Closed}] /\ FormsResolve'
  BY <1>1, <1>2, <1>3, <1>4, <1>5, OvertakenForms
<1>7. TypeOK'
  BY <1>2, <1>3, <1>4, <1>6 DEF TypeOK
<1>8. QED
  BY <1>4, <1>6, <1>7 DEF Safe, a

(* ... and shows what it was made by. *)
LEMMA RegistersMakes ==
  ASSUME Safe, Serving, NEW r, Complete(r), Registers(r)
  PROVE  MadeBy(r.manifest.agent, r)'
<1> DEFINE a == r.manifest.agent
<1>1. r \in Registration /\ a \in Agent /\ r.manifest.content \in Content
      /\ r.token \in Token \cup {NoToken} /\ BackendAuth(r) \in Auth
      /\ (BackendAuth(r) = "ref" <=> r.token # NoToken) /\ FALSE \in BOOLEAN
  BY RegistrationFields, BackendAuths DEF Complete
<1>2. TypeOK /\ Serving /\ Upserts(r) /\ gateway' = gateway
  BY DEF Registers, Safe
<1> HIDE DEF a
<1>3. CASE /\ r.manifest.kind = "native" /\ r.answer \in 0 .. MaxCard
           /\ UpsertNative(a, r.manifest.content, r.answer)
  <2>1. rows'[a] # NoRow /\ rows'[a].definition = Native(r.manifest.content, r.answer)
    BY <1>1, <1>2, <1>3, NativeFacts, RowFields
  <2>2. QED
    BY <1>3, <2>1 DEF MadeBy, Registered, a
<1>4. CASE /\ r.manifest.kind # "native" /\ ContentOf(r) \in Content
           /\ UpsertManaged(a, ContentOf(r), BackendAuth(r), r.token, FALSE)
  <2> DEFINE way == ResolvedAuth(a, BackendAuth(r), r.token, FALSE)
  <2>1. /\ rows'[a] # NoRow
        /\ rows'[a].definition = Managed(ContentOf(r), way, gateway)
        /\ secrets'[a] = Secret(a, BackendAuth(r), r.token, FALSE)
    BY <1>1, <1>2, <1>4, UpsertFacts, RowFields
  <2>2. /\ r.token # NoToken => way = "ref" /\ Secret(a, BackendAuth(r), r.token, FALSE) = r.token
        /\ BackendAuth(r) = "env" => way = "env" /\ Secret(a, BackendAuth(r), r.token, FALSE) = NoToken
        /\ BackendAuth(r) = "none" => way \in {"none", "ref"}
    BY <1>1 DEF ResolvedAuth, Secret
  <2> HIDE DEF way
  <2>3. rows'[a].definition.auth = way
    <3>1. Managed(ContentOf(r), way, gateway).auth = way
      BY ManagedFields
    <3>2. QED
      BY <2>1, <3>1
  <2>4. QED
    BY <1>2, <1>4, <2>1, <2>2, <2>3 DEF MadeBy, Registered, a
<1>5. QED
  BY <1>2, <1>3, <1>4, UpsertsSplit DEF a

(* Registering again with what made the agent what it is. *)
LEMMA AgainIsIdle ==
  ASSUME Safe, Serving, NEW r, Complete(r), Registers(r), MadeBy(r.manifest.agent, r)
  PROVE  rows'[r.manifest.agent] = rows[r.manifest.agent]
         /\ secrets'[r.manifest.agent] = secrets[r.manifest.agent]
<1> DEFINE a == r.manifest.agent
<1>1. r \in Registration /\ a \in Agent /\ r.manifest.content \in Content
      /\ r.token \in Token \cup {NoToken} /\ BackendAuth(r) \in Auth
      /\ (BackendAuth(r) = "ref" <=> r.token # NoToken) /\ FALSE \in BOOLEAN
  BY RegistrationFields, BackendAuths DEF Complete
<1>2. TypeOK /\ Serving /\ Upserts(r) /\ gateway' = gateway
  BY DEF Registers, Safe
<1>3. Registered(a) /\ MadeBy(a, r)
  BY DEF MadeBy
<1> HIDE DEF a
<1>4. rows[a] \in Row /\ rows[a].definition \in Definition
  BY <1>1, <1>2, <1>3, RegisteredRow
<1>5. CASE /\ r.manifest.kind = "native" /\ r.answer \in 0 .. MaxCard
           /\ UpsertNative(a, r.manifest.content, r.answer)
  <2>1. rows[a].definition = Native(r.manifest.content, r.answer)
    BY <1>3, <1>5 DEF MadeBy
  <2>2. /\ rows'[a] \in Row /\ rows'[a].definition = Native(r.manifest.content, r.answer)
        /\ secrets' = secrets
    BY <1>1, <1>2, <1>5, NativeFacts
  <2>3. rows'[a].revision = Revision(a, Native(r.manifest.content, r.answer), NoToken)
    BY <1>1, <1>2, <1>5, NativeFields, StoreFacts DEF UpsertNative
  <2>4. rows'[a].revision = rows[a].revision
    BY <1>3, <2>1, <2>3 DEF Revision
  <2>5. QED
    BY <1>1, <1>2, <1>3, <2>1, <2>2, <2>4, SameRow DEF a
<1>6. CASE /\ r.manifest.kind # "native" /\ ContentOf(r) \in Content
           /\ UpsertManaged(a, ContentOf(r), BackendAuth(r), r.token, FALSE)
  <2> DEFINE way == ResolvedAuth(a, BackendAuth(r), r.token, FALSE)
             old == rows[a].definition
  <2>1. /\ old = Managed(ContentOf(r), old.auth, gateway)
        /\ r.token # NoToken => old.auth = "ref" /\ secrets[a] = r.token
        /\ BackendAuth(r) = "env" => old.auth = "env" /\ secrets[a] = NoToken
        /\ BackendAuth(r) = "none" => old.auth \in {"none", "ref"}
    BY <1>3, <1>6 DEF MadeBy
  <2>2. /\ rows'[a] \in Row /\ rows'[a].definition = Managed(ContentOf(r), way, gateway)
        /\ secrets'[a] = Secret(a, BackendAuth(r), r.token, FALSE)
    BY <1>1, <1>2, <1>6, UpsertFacts
  <2>3. /\ way = old.auth /\ way \in Auth
        /\ Secret(a, BackendAuth(r), r.token, FALSE) = secrets[a]
    BY <1>1, <1>3, <2>1 DEF ResolvedAuth, Secret, Refers, Auth
  <2>4. r.token \in {NoToken, secrets[a]}
    BY <2>1
  <2> HIDE DEF way
  <2>5. Managed(ContentOf(r), way, gateway) = old
    BY <2>1, <2>3
  <2>6. rows'[a].revision = Revision(a, Managed(ContentOf(r), way, gateway), r.token)
    <3>1. Store(a, Managed(ContentOf(r), way, gateway), r.token)
      BY <1>6 DEF UpsertManaged, way
    <3>2. Managed(ContentOf(r), way, gateway) \in Definition
      BY <1>2, <1>6, <2>3, ManagedFields, ServedGateway
    <3>3. QED
      BY <1>1, <1>2, <3>1, <3>2, StoreFacts
  <2>7. rows'[a].revision = rows[a].revision
    BY <1>3, <2>4, <2>5, <2>6 DEF Revision
  <2>8. QED
    BY <1>1, <1>2, <1>3, <2>2, <2>3, <2>5, <2>7, SameRow DEF a
<1>7. QED
  BY <1>2, <1>5, <1>6, UpsertsSplit DEF a

-----------------------------------------------------------------------------
(* Every step of the Registry keeps the inductive invariant, lets a        *)
(* revision stand for one thing only, and leaves alone what it says was    *)
(* settled before.                                                         *)

Idle ==
  \A a \in Agent : settled[a] # Unsettled /\ settled'[a] = settled[a] /\ gateway' = gateway =>
    rows'[a] = rows[a] /\ secrets'[a] = secrets[a]

LEMMA InitIInv == OnboardingInit => IInv
<1> SUFFICES ASSUME OnboardingInit PROVE IInv
  OBVIOUS
<1>1. Safe /\ registrations = {} /\ requests = 0 /\ settled = [a \in Agent |-> Unsettled]
  BY InitSafe DEF OnboardingInit
<1>2. OnboardingTypeOK
  BY <1>1, OnboardingAssumption DEF Safe, OnboardingTypeOK
<1>3. SettledKept /\ CardsCurrent
  BY <1>1 DEF SettledKept, CardsCurrent, Serving, OnboardingInit, Init
<1>4. QED
  BY <1>1, <1>2, <1>3 DEF Safe, IInv

LEMMA MadeByKept ==
  ASSUME SettledKept, NEW a \in Agent, rows'[a] = rows[a], secrets'[a] = secrets[a],
         settled'[a] = settled[a], settled[a] # Unsettled, gateway' = gateway
  PROVE  Serving' /\ MadeBy(a, settled[a])'
<1>1. Serving /\ MadeBy(a, settled[a])
  BY DEF SettledKept
<1>2. Serving'
  BY <1>1 DEF Serving
<1>3. QED
  BY <1>1, <1>2 DEF MadeBy, Registered, Native, Managed, ContentOf, BackendAuth

(* The steps that do not register an agent. *)
LEMMA UnsettlesStep ==
  ASSUME IInv, Safe', RevisionCounts, StaysCurrent, Unsettles,
         registrations' \subseteq registrations, requests' \in 0 .. MaxRequest
  PROVE  IInv' /\ RevisionCounts /\ Idle
<1>1. ASSUME NEW a \in Agent
      PROVE  \/ settled'[a] = Unsettled
             \/ settled'[a] = settled[a] /\ rows'[a] = rows[a] /\ secrets'[a] = secrets[a]
  BY DEF Unsettles
<1>2. OnboardingTypeOK'
  <2>1. settled' \in [Agent -> Registration \cup {Unsettled}]
    BY DEF Unsettles, IInv, OnboardingTypeOK
  <2>2. QED
    BY <2>1 DEF Safe, IInv, OnboardingTypeOK
<1>3. SettledKept'
  <2> SUFFICES ASSUME NEW a \in Agent, settled'[a] # Unsettled
               PROVE  Serving' /\ MadeBy(a, settled[a])'
    BY DEF SettledKept
  <2>1. gateway' = gateway
    BY DEF StaysCurrent
  <2>2. QED
    BY <1>1, <2>1, MadeByKept DEF IInv
<1>4. Idle /\ CardsCurrent'
  BY <1>1, CardsKept DEF Idle, IInv
<1>5. QED
  BY <1>2, <1>3, <1>4 DEF Safe, IInv

LEMMA UnchangedStep ==
  ASSUME IInv, UNCHANGED <<vars, settled>>,
         registrations' \in SUBSET Registration, requests' \in 0 .. MaxRequest
  PROVE  IInv' /\ RevisionCounts /\ Idle
<1>1. Safe' /\ RevisionCounts /\ StaysCurrent
  BY UnchangedSafe DEF IInv, Safe, OnboardingTypeOK
<1>2. rows' = rows /\ secrets' = secrets /\ settled' = settled /\ gateway' = gateway
  BY DEF vars, registryVars
<1>3. OnboardingTypeOK' /\ Idle /\ CardsCurrent'
  BY <1>1, <1>2, CardsKept DEF Safe, IInv, OnboardingTypeOK, Idle
<1>4. SettledKept'
  BY <1>2, MadeByKept DEF IInv, SettledKept
<1>5. QED
  BY <1>1, <1>3, <1>4 DEF Safe, IInv

LEMMA RegistersStep ==
  ASSUME IInv, Serving, NEW r, Complete(r), Registers(r), registrations' \in SUBSET Registration
  PROVE  IInv' /\ RevisionCounts /\ Idle
<1> DEFINE a == r.manifest.agent
<1>1. Safe
  BY DEF IInv, Safe, OnboardingTypeOK
<1>2. /\ Safe' /\ RevisionCounts /\ StaysCurrent
      /\ \A b \in Agent : b # a => rows'[b] = rows[b] /\ secrets'[b] = secrets[b]
  BY <1>1, RegistersSafe
<1>3. a \in Agent /\ r \in Registration
  BY RegistrationFields DEF Complete
<1>4. settled' = [settled EXCEPT ![a] = r] /\ requests' = requests /\ gateway' = gateway
  BY DEF Registers
<1>5. MadeBy(a, r)'
  BY <1>1, RegistersMakes
<1>6. MadeBy(a, r) => rows'[a] = rows[a] /\ secrets'[a] = secrets[a]
  BY <1>1, AgainIsIdle
<1> HIDE DEF a
<1>7. /\ settled'[a] = r
      /\ \A b \in Agent : b # a => settled'[b] = settled[b]
  BY <1>3, <1>4 DEF IInv, OnboardingTypeOK
<1>8. OnboardingTypeOK'
  BY <1>2, <1>3, <1>4 DEF Safe, IInv, OnboardingTypeOK
<1>9. SettledKept'
  <2> SUFFICES ASSUME NEW b \in Agent, settled'[b] # Unsettled
               PROVE  Serving' /\ MadeBy(b, settled[b])'
    BY DEF SettledKept
  <2>1. CASE b = a
    <3>1. Serving'
      BY <1>4 DEF Serving
    <3>2. QED
      BY <1>5, <1>7, <2>1, <3>1 DEF MadeBy, Registered, Native, Managed, ContentOf, BackendAuth
  <2>2. CASE b # a
    BY <1>2, <1>4, <1>7, <2>2, MadeByKept DEF IInv
  <2>3. QED
    BY <2>1, <2>2
<1>10. Idle
  <2> SUFFICES ASSUME NEW b \in Agent, settled[b] # Unsettled, settled'[b] = settled[b],
                      gateway' = gateway
               PROVE  rows'[b] = rows[b] /\ secrets'[b] = secrets[b]
    BY DEF Idle
  <2>1. CASE b = a
    <3>1. MadeBy(a, r)
      BY <1>7, <2>1 DEF IInv, SettledKept
    <3>2. QED
      BY <1>6, <2>1, <3>1
  <2>2. CASE b # a
    BY <1>2, <2>2
  <2>3. QED
    BY <2>1, <2>2
<1>11. CardsCurrent'
  BY <1>2, CardsKept DEF IInv
<1>12. QED
  BY <1>2, <1>8, <1>9, <1>10, <1>11 DEF Safe, IInv

LEMMA PostStep ==
  ASSUME IInv, Serving, NEW m \in Manifest, NEW token \in Token \cup {NoToken}, Post(m, token)
  PROVE  IInv' /\ RevisionCounts /\ Idle
<1> DEFINE r == [manifest |-> m, token |-> token, answer |-> 0]
<1>1. r \in Registration /\ r.manifest = m /\ r.answer = 0 /\ 0 \in 0 .. MaxCard
  BY RegistryAssumption DEF Registration
<1>2. registrations \in SUBSET Registration /\ requests \in 0 .. MaxRequest
  BY DEF IInv, OnboardingTypeOK
<1>3. \/ /\ registrations' = registrations \cup {r}
         /\ UNCHANGED <<vars, requests, settled>>
      \/ /\ m.kind \in {"openclaw", "declarative"}
         /\ Registers(r)
         /\ UNCHANGED registrations
      \/ AdapterRequested
  BY DEF Post
<1> HIDE DEF r
<1>4. CASE /\ registrations' = registrations \cup {r}
           /\ UNCHANGED <<vars, requests, settled>>
  BY <1>1, <1>2, <1>4, UnchangedStep
<1>5. CASE m.kind \in {"openclaw", "declarative"} /\ Registers(r) /\ UNCHANGED registrations
  <2>1. Complete(r)
    BY <1>1, <1>5 DEF Complete
  <2>2. QED
    BY <1>2, <1>5, <2>1, RegistersStep
<1>6. CASE AdapterRequested
  <2>1. requests' \in 0 .. MaxRequest
    BY <1>2, <1>6, OnboardingAssumption DEF AdapterRequested
  <2>2. QED
    BY <1>2, <1>6, <2>1, UnchangedStep DEF AdapterRequested
<1>7. QED
  BY <1>3, <1>4, <1>5, <1>6

LEMMA AnsweredStep ==
  ASSUME IInv, Serving, NEW r \in registrations, Answered(r)
  PROVE  IInv' /\ RevisionCounts /\ Idle
<1>1. PICK answer \in Content \cup 1 .. MaxCard :
        /\ r.manifest.kind = "native" => answer = provider[r.manifest.agent]
        /\ r.manifest.kind = "probed" => answer \in Content
        /\ Registers([r EXCEPT !.answer = answer])
  BY DEF Answered
<1>2. r \in Registration /\ registrations' \in SUBSET Registration
  BY DEF IInv, OnboardingTypeOK, Answered
<1> DEFINE s == [r EXCEPT !.answer = answer]
<1>3. s.manifest = r.manifest /\ s.answer = answer /\ s \in Registration
  <2>1. answer \in Content \cup 0 .. MaxCard
    BY RegistryAssumption
  <2>2. QED
    BY <1>2, <2>1 DEF Registration
<1>4. Complete(s)
  <2>1. provider[r.manifest.agent] \in 0 .. MaxCard
    <3>1. r.manifest.agent \in Agent
      BY <1>2, RegistrationFields
    <3>2. provider[r.manifest.agent] \in 1 .. MaxCard
      BY <3>1 DEF IInv, OnboardingTypeOK, TypeOK
    <3>3. QED
      BY <3>2, RegistryAssumption
  <2> HIDE DEF s
  <2>2. QED
    BY <1>1, <1>3, <2>1 DEF Complete
<1>5. Registers(s)
  BY <1>1
<1> HIDE DEF s
<1>6. QED
  BY <1>2, <1>4, <1>5, RegistersStep

(* A start keeps what registrations left: a managed agent only gets the    *)
(* card of the new Gateway.                                                *)
LEMMA StartStep ==
  ASSUME IInv, Restart, registrations' = {}, UNCHANGED <<requests, settled>>
  PROVE  IInv' /\ RevisionCounts /\ Idle
<1>1. Safe /\ CardsCurrent
  BY DEF IInv, Safe, OnboardingTypeOK
<1>2. Safe' /\ RevisionCounts /\ CardsCurrent'
  BY <1>1, RestartStep
<1>3. OnboardingTypeOK'
  BY <1>2 DEF Safe, IInv, OnboardingTypeOK
<1>4. /\ gateway' \in Gateway /\ Serving' /\ secrets' = secrets /\ settled' = settled
      /\ rows \in [Agent -> Row \cup {NoRow}]
  BY <1>1, StartFacts, RegistryAssumption DEF Serving, Safe, TypeOK
<1>5. ASSUME NEW a \in Agent, settled[a] # Unsettled
      PROVE  /\ Serving /\ MadeBy(a, settled[a]) /\ Registered(a)
             /\ rows[a] \in Row \cup {NoRow} /\ rows'[a] = Restarted(rows[a], gateway')
             /\ IsManaged(rows[a]) =>
                  rows[a].definition.card = gateway /\ rows[a].definition.content # Legacy
  <2>1. Serving /\ MadeBy(a, settled[a])
    BY <1>5 DEF IInv, SettledKept
  <2>2. Registered(a)
    BY <2>1 DEF MadeBy
  <2>3. QED
    BY <1>1, <1>4, <2>1, <2>2, StartFacts DEF CardsCurrent
<1>6. SettledKept'
  <2> SUFFICES ASSUME NEW a \in Agent, settled[a] # Unsettled
               PROVE  MadeBy(a, settled[a])'
    BY <1>4 DEF SettledKept
  <2> DEFINE r == settled[a]
             old == rows[a].definition
  <2>1. MadeBy(a, r) /\ rows'[a] = Restarted(rows[a], gateway') /\ rows'[a] # NoRow
    BY <1>4, <1>5, RestartedFields DEF Registered
  <2>2. CASE r.manifest.kind = "native"
    <3>1. rows'[a] = rows[a]
      <4>1. old = Native(r.manifest.content, r.answer)
        BY <2>1, <2>2 DEF MadeBy
      <4>2. ~IsManaged(rows[a])
        BY <4>1, NativeFields DEF IsManaged
      <4>3. QED
        BY <1>4, <1>5, <2>1, <4>2, RestartedFields
    <3>2. QED
      BY <1>4, <2>1, <2>2, <3>1 DEF MadeBy, Registered, Native
  <2>3. CASE r.manifest.kind # "native"
    <3>1. /\ r.manifest.agent = a
          /\ old = Managed(ContentOf(r), old.auth, gateway)
          /\ r.token # NoToken => old.auth = "ref" /\ secrets[a] = r.token
          /\ BackendAuth(r) = "env" => old.auth = "env" /\ secrets[a] = NoToken
          /\ BackendAuth(r) = "none" => old.auth \in {"none", "ref"}
      BY <2>1, <2>3 DEF MadeBy
    <3>2. IsManaged(rows[a]) /\ old.content = ContentOf(r)
      BY <1>5, <3>1, ManagedFields DEF IsManaged, Registered
    <3>3. Migrate(old.content) = ContentOf(r)
      BY <1>5, <3>2 DEF Migrate
    <3>4. rows'[a].definition = Managed(ContentOf(r), old.auth, gateway')
      BY <1>4, <1>5, <2>1, <3>2, <3>3, RestartedFields
    <3>5. rows'[a].definition.auth = old.auth
      BY <3>4, ManagedFields
    <3>6. ContentOf(r)' = ContentOf(r) /\ BackendAuth(r)' = BackendAuth(r)
      BY <1>4 DEF ContentOf, BackendAuth
    <3> HIDE DEF old
    <3>7. QED
      BY <1>4, <2>1, <2>3, <3>1, <3>4, <3>5, <3>6 DEF MadeBy, Registered
  <2>4. QED
    BY <2>2, <2>3
<1>7. Idle
  <2> SUFFICES ASSUME NEW a \in Agent, settled[a] # Unsettled, gateway' = gateway
               PROVE  rows'[a] = rows[a] /\ secrets'[a] = secrets[a]
    BY DEF Idle
  <2>1. QED
    BY <1>4, <1>5, RestartedFields
<1>8. QED
  BY <1>2, <1>3, <1>6, <1>7 DEF Safe, IInv

LEMMA Step ==
  ASSUME IInv, [OnboardingNext]_<<vars, onboardingVars>>
  PROVE  IInv' /\ RevisionCounts /\ Idle
<1>1. Safe /\ registrations \in SUBSET Registration /\ requests \in 0 .. MaxRequest
  BY DEF IInv, Safe, OnboardingTypeOK
<1>2. CASE Serving /\ \E m \in Manifest, token \in Token \cup {NoToken} : Post(m, token)
  BY <1>2, PostStep
<1>3. CASE Serving /\ \E r \in registrations : Answered(r)
  BY <1>3, AnsweredStep
<1>4. CASE \E r \in registrations : RegistrationFails(r)
  BY <1>1, <1>4, UnchangedStep DEF RegistrationFails
<1>5. CASE Restart /\ registrations' = {} /\ UNCHANGED <<requests, settled>>
  BY <1>1, <1>5, StartStep
<1>6. CASE Serving /\ AdminNext /\ Unsettles /\ UNCHANGED <<registrations, requests>>
  BY <1>1, <1>6, AdminStep, UnsettlesStep
<1>7. CASE UNCHANGED <<vars, onboardingVars>>
  BY <1>1, <1>7, UnchangedStep DEF onboardingVars
<1>8. QED
  BY <1>2, <1>3, <1>4, <1>5, <1>6, <1>7 DEF OnboardingNext, RequestStep

-----------------------------------------------------------------------------
(* The inductive invariant: types, the match of definitions and tokens,    *)
(* cards of the Gateway the Registry works with, forms that resolve, and   *)
(* agents that show what registered them.                                  *)
THEOREM OnboardingInvariant == OnboardingSpec => []IInv
<1>1. IInv /\ [OnboardingNext]_<<vars, onboardingVars>> => IInv'
  BY Step
<1>2. QED
  BY InitIInv, <1>1, PTL DEF OnboardingSpec

(* Every row, secret, form, update and registration keeps its type,        *)
(* revisions and cards within their bounds.                                *)
THEOREM TypeCorrect == OnboardingSpec => []OnboardingTypeOK
<1>1. IInv => OnboardingTypeOK
  BY DEF IInv
<1>2. QED
  BY OnboardingInvariant, <1>1, PTL

(* Whatever is edited, registered, converted, deleted, fetched late or     *)
(* restarted: a definition that refers to a token finds it, unless an      *)
(* overtaken form was saved, and no token survives its agent.              *)
THEOREM DefinitionsResolve == OnboardingSpec => []CredentialsMatch
<1>1. IInv => CredentialsMatch
  BY DEF IInv
<1>2. QED
  BY OnboardingInvariant, <1>1, PTL

(* Whichever Gateways the Registry was started with: the card of every     *)
(* managed agent names the one it works with now, and no definition has    *)
(* the removed preset.                                                     *)
THEOREM CardsAreCurrent == OnboardingSpec => []CardsCurrent
<1>1. IInv => CardsCurrent
  BY DEF IInv
<1>2. QED
  BY OnboardingInvariant, <1>1, PTL

(* Another definition, card or effective token of an agent comes with a    *)
(* higher revision; but a start of the Registry with another URL moves the *)
(* cards of managed agents to it, and migrates definitions of an older     *)
(* version, under the revision there is and with the credential there is.  *)
THEOREM RevisionsCount == OnboardingSpec => RevisionTracksChanges
<1>1. IInv /\ [OnboardingNext]_<<vars, onboardingVars>> => [RevisionCounts]_vars
  BY Step
<1>2. QED
  BY OnboardingInvariant, <1>1, PTL DEF OnboardingSpec, RevisionTracksChanges

(* Registering again with the same manifest, token and answer changes      *)
(* neither the definition, the card, the revision nor the token, however   *)
(* often and with whichever URL the Registry has been started since.       *)
THEOREM AgainChangesNothing == OnboardingSpec => RegisteringAgainIsIdle
<1>1. IInv /\ [OnboardingNext]_<<vars, onboardingVars>>
        => [\A a \in Agent : settled[a] # Unsettled /\ settled'[a] = settled[a] /\ gateway' = gateway =>
              rows'[a] = rows[a] /\ secrets'[a] = secrets[a]]_<<vars, onboardingVars>>
  BY Step DEF Idle
<1>2. QED
  BY OnboardingInvariant, <1>1, PTL DEF OnboardingSpec, RegisteringAgainIsIdle
=============================================================================
