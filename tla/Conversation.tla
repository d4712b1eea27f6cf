----------------------------- MODULE Conversation -----------------------------
(***************************************************************************)
(* The chat of the copilot (ai_copilot/views.py, ChatView and              *)
(* ConversationDetailView; services.py, chat; providers.py): a message     *)
(* finds its conversation or opens one, acts or is answered by the first   *)
(* provider that can, and the pair of messages is stored afterwards, one   *)
(* at a time, while other tabs of the same account chat or delete.         *)
(***************************************************************************)
EXTENDS Integers, Sequences, FiniteSets, SequencesExt, FiniteSetsExt

CONSTANTS
    Appels,         \* messages sent, from any tab
    MaxConversations,
    Moteurs         \* the providers that need a key, in the order they are tried

ConversationConstantes == MaxConversations \in Nat

VARIABLES
    conversations,  \* number -> its messages, or Effacee
    appel,          \* what each message has come to
    demandes,       \* requests for approval: [de, sur]
    executions,     \* messages whose reading tool has succeeded
    moteurs         \* what each provider does: see Conduites

vars == <<conversations, appel, demandes, executions, moteurs>>

Effacee == [existe |-> FALSE, messages |-> <<>>]
Ouverte == [existe |-> TRUE, messages |-> <<>>]
SansConversation == 0
Intentions == {"question", "lecture", "ecriture"}
HorsLigne == "offline-grounded"

\* A provider has no key or fails as ProviderUnavailable; fails with an error that nobody catches (http.client's,
\* or an answer of another shape); gives a null text; or answers.
Conduites == {"passe", "casse", "muet", "repond"}

Attente == [etape |-> "attente", sur |-> SansConversation, intention |-> "aucune", action |-> "aucune",
            moteur |-> "aucun", essais |-> <<>>, code |-> 0]

Init ==
    /\ conversations = <<>>
    /\ appel = [a \in Appels |-> Attente]
    /\ demandes = {}
    /\ executions = {}
    /\ moteurs \in [ToSet(Moteurs) -> Conduites]

-----------------------------------------------------------------------------
(* The providers. *)

Presentes == {n \in DOMAIN conversations : conversations[n].existe}

Arrete(m) == moteurs[m] # "passe"

\* AIProviderRouter.complete: the first that does not raise ProviderUnavailable, the grounded sentence after all
\* the others.
Choisi ==
    LET bons == {i \in DOMAIN Moteurs : Arrete(Moteurs[i])}
    IN IF bons = {} THEN Len(Moteurs) + 1 ELSE Min(bons)
Conduite(m) == IF m \in DOMAIN moteurs THEN moteurs[m] ELSE "repond"
Tentatives == SubSeq(Append(Moteurs, HorsLigne), 1, Choisi)

-----------------------------------------------------------------------------
(* One message. *)

Echouer(a, code) == [appel EXCEPT ![a] = [@ EXCEPT !.etape = "fin", !.code = code]]
\* The page fails because of the provider.
Tomber(a, etape) == [appel EXCEPT ![a] = [@ EXCEPT !.etape = etape, !.code = 500]]

\* The view has read the message and found, or opened, its conversation.
Recu(a, n, intention) ==
    [appel EXCEPT ![a] = [@ EXCEPT !.etape = "recu", !.sur = n, !.intention = intention]]

\* ChatView.post and AIConversation.objects.create: a new conversation, one of the account, or none by that number.
Recevoir(a, n, intention) ==
    /\ appel[a].etape = "attente"
    /\ \/ /\ n = SansConversation /\ Len(conversations) < MaxConversations
          /\ conversations' = Append(conversations, Ouverte)
          /\ appel' = Recu(a, Len(conversations) + 1, intention)
       \/ /\ n \in Presentes
          /\ appel' = Recu(a, n, intention)
          /\ UNCHANGED conversations
       \/ /\ n \in DOMAIN conversations \ Presentes
          /\ appel' = Echouer(a, 404)
          /\ UNCHANGED conversations
    /\ UNCHANGED <<demandes, executions, moteurs>>

\* _run_action: an intention to read runs the tool, whose failure is an answer like another; one to write files
\* a request that names the conversation, or is refused to an account without the right.
Agir(a, habilite) ==
    LET n == appel[a].sur
        Faite(action) == [appel EXCEPT ![a] = [@ EXCEPT !.etape = "repondu", !.action = action, !.moteur = "tool"]]
    IN /\ appel[a].etape = "recu" /\ appel[a].intention # "question"
       /\ \/ /\ appel[a].intention = "lecture"
             /\ \/ executions' = executions \cup {a} /\ appel' = Faite("done")
                \/ UNCHANGED executions /\ appel' = Faite("error")
             /\ UNCHANGED demandes
          \/ /\ appel[a].intention = "ecriture" /\ ~habilite
             /\ appel' = Faite("denied")
             /\ UNCHANGED <<demandes, executions>>
          \/ /\ appel[a].intention = "ecriture" /\ habilite /\ n \in Presentes
             /\ demandes' = demandes \cup {[de |-> a, sur |-> n]}
             /\ appel' = Faite("approval_required")
             /\ UNCHANGED executions
          \/ /\ appel[a].intention = "ecriture" /\ habilite /\ n \notin Presentes
             /\ appel' = Echouer(a, 500)
             /\ UNCHANGED <<demandes, executions>>
       /\ UNCHANGED <<conversations, moteurs>>

\* grounded_facts and router.complete: an error of the provider that is not ProviderUnavailable is the page's.
Repondre(a) ==
    /\ appel[a].etape = "recu" /\ appel[a].intention = "question"
    /\ appel' = IF Conduite(Last(Tentatives)) = "casse" THEN Tomber(a, "brisee")
                ELSE [appel EXCEPT ![a] = [@ EXCEPT !.etape = "repondu", !.essais = Tentatives,
                                                   !.moteur = Last(Tentatives)]]
    /\ UNCHANGED <<conversations, demandes, executions, moteurs>>

Message(a, role) == [de |-> a, role |-> role]

\* The column of the text is not null.
SansTexte(a, role) == role = "assistant" /\ Conduite(appel[a].moteur) = "muet"

\* A message stored in a conversation deleted meanwhile is a broken foreign key: the page fails.
Stocker(a, etape, role, suivante) ==
    LET n == appel[a].sur
    IN /\ appel[a].etape = etape
       /\ \/ /\ n \in Presentes /\ ~SansTexte(a, role)
             /\ conversations' = [conversations EXCEPT ![n].messages = Append(@, Message(a, role))]
             /\ appel' = [appel EXCEPT ![a].etape = suivante]
          \/ /\ n \in Presentes /\ SansTexte(a, role)
             /\ appel' = Tomber(a, "muette")
             /\ UNCHANGED conversations
          \/ /\ n \notin Presentes
             /\ appel' = Echouer(a, 500)
             /\ UNCHANGED conversations
       /\ UNCHANGED <<demandes, executions, moteurs>>

StockerQuestion(a) == Stocker(a, "repondu", "user", "question")
StockerReponse(a) == Stocker(a, "question", "assistant", "reponse")

\* conversation.save(update_fields): no row any more is an error too.
Rendre(a) ==
    /\ appel[a].etape = "reponse"
    /\ appel' = Echouer(a, IF appel[a].sur \in Presentes THEN 200 ELSE 500)
    /\ UNCHANGED <<conversations, demandes, executions, moteurs>>

\* ConversationDetailView.delete: its messages go with it, its requests stay and name no conversation.
Supprimer(n) ==
    /\ n \in Presentes
    /\ conversations' = [conversations EXCEPT ![n] = Effacee]
    /\ demandes' = {IF d.sur = n THEN [d EXCEPT !.sur = SansConversation] ELSE d : d \in demandes}
    /\ UNCHANGED <<appel, executions, moteurs>>

Next ==
    \/ \E a \in Appels :
           \/ \E n \in SansConversation..MaxConversations, i \in Intentions : Recevoir(a, n, i)
           \/ \E h \in BOOLEAN : Agir(a, h)
           \/ Repondre(a) \/ StockerQuestion(a) \/ StockerReponse(a) \/ Rendre(a)
    \/ \E n \in 1..MaxConversations : Supprimer(n)

Spec == Init /\ [][Next]_vars

-----------------------------------------------------------------------------
(* Properties. *)

TypeOK ==
    /\ DOMAIN conversations \subseteq 1..MaxConversations
    /\ \A n \in DOMAIN conversations :
           \A i \in DOMAIN conversations[n].messages :
               conversations[n].messages[i] \in [de : Appels, role : {"user", "assistant"}]
    /\ \A a \in Appels :
           /\ appel[a].etape \in {"attente", "recu", "repondu", "question", "reponse", "fin", "brisee", "muette"}
           /\ appel[a].action \in {"aucune", "done", "error", "denied", "approval_required"}
           /\ appel[a].code \in {0, 200, 404, 500}
    /\ demandes \subseteq [de : Appels, sur : SansConversation..MaxConversations]
    /\ executions \subseteq Appels

Places(n, a, role) == {i \in DOMAIN conversations[n].messages : conversations[n].messages[i] = Message(a, role)}

\* A conversation that still exists holds the question and the answer of every message it answered, once
\* each and in this order, whatever is sent at the same time from another tab.  A message still being answered,
\* or that a provider has answered with a null text, has its question alone; one whose provider broke leaves
\* nothing, and nothing else ends in an error (services.py:83-117).
Paires ==
    \A a \in Appels :
        LET n == appel[a].sur
            questions == Places(n, a, "user")
            reponses == Places(n, a, "assistant")
        IN n \in Presentes =>
               /\ Cardinality(questions) = IF appel[a].etape \in {"question", "reponse", "fin", "muette"} THEN 1 ELSE 0
               /\ Cardinality(reponses) = IF appel[a].etape \in {"reponse", "fin"} THEN 1 ELSE 0
               /\ \A i \in questions, j \in reponses : i < j
               /\ appel[a].etape = "fin" => appel[a].code = 200

\* A sensitive action asked for in a chat leaves a request and runs nothing; what the account is told is
\* what happened; a request outlives its conversation and never names one that is gone; and a message that
\* ends in an error because its conversation was deleted may have left its request behind it, which the
\* account still finds in the list of actions (services.py:24-52; models.py, SET_NULL).
ActionsDites ==
    /\ \A d \in demandes : d.sur = SansConversation \/ d.sur \in Presentes
    /\ \A a \in Appels :
           /\ Cardinality({d \in demandes : d.de = a}) = IF appel[a].action = "approval_required" THEN 1 ELSE 0
           /\ a \in executions <=> appel[a].action = "done"
           /\ a \in executions => appel[a].intention = "lecture"

\* A question whose conversation is kept has an answer unless the first provider that does not step aside broke
\* or gave a null text (providers.py:102-106, 131-134, 156-160); the answer is that provider's, or the grounded
\* sentence when they all step aside, and its trace holds all those tried before (172-198).
RepliAssure ==
    \A a \in Appels :
        /\ appel[a].essais # <<>> =>
               /\ Conduite(Last(appel[a].essais)) \in {"repond", "muet"}
               /\ \A i \in DOMAIN Front(appel[a].essais) : moteurs[appel[a].essais[i]] = "passe"
        /\ appel[a].etape \in {"brisee", "muette"} =>
               \E i \in DOMAIN Moteurs :
                   /\ moteurs[Moteurs[i]] \in {"casse", "muet"}
                   /\ \A j \in 1..(i - 1) : moteurs[Moteurs[j]] = "passe"
=============================================================================
