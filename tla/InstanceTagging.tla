---------------------------- MODULE InstanceTagging ----------------------------
(***************************************************************************)
(* The nodeclaim.tagging controller: once the Node of a NodeClaim is known *)
(* it adds the free-form tags of the NodeClass that the instance does not  *)
(* have and annotates the NodeClaim. One worker; a NodeClaim is in the     *)
(* queue after an event the filter admits, and again after an error. OCI   *)
(* calls are retried by the SDK under the global retry policy.             *)
(***************************************************************************)
EXTENDS InstanceLaunch

CONSTANTS Tags,           \* keys of free-form tags
          FirstTags,      \* the free-form tags of the NodeClasses at first
          MaxAttempts     \* attempts of an OCI call; the policy has eight

ASSUME TaggingAssumption == FirstTags \subseteq Tags

VARIABLES freeFormTags,   \* of the NodeClasses
          tags,           \* NodeClaim -> free-form tags of its instance
          given,          \* history: NodeClaim -> the NodeClass's tags, as read by passes
                          \* that gave its instance some
          named,          \* NodeClaims with a Node name
          deleting,       \* NodeClaims with a deletion timestamp
          tagged,         \* NodeClaim -> Nothing, or annotated: the tags its pass read
          queue,          \* NodeClaims waiting for the controller
          tagger          \* the reconciliation in progress

taggingVars == <<freeFormTags, tags, given, named, deleting, tagged, queue, tagger>>

Resting == [pc |-> "idle"]

\* Variant: the name of the Node is not asked for.
IsTaggableUnnamed(n) == tagged[n] = Nothing /\ n \notin deleting

IsTaggable(n) == tagged[n] = Nothing /\ n \in named /\ n \notin deleting

\* Errors of an attempt: throttled, in an incorrect state, lost on the way, other.
Errors == {"429", "409", "network", "other"}

ShouldRetry(e) == e \in {"429", "409", "network"}

\* The tags of the NodeClass that are not among those of the instance.
OmitByKeys(read, has) == read \ has

\* UpdateInstance: OCI puts the free-form tags of the call in the place of those
\* the instance has.
Updated(old, new) == new

\* An update with the missing tags of pass t takes effect.
Tagged(t) ==
  /\ tags' = [tags EXCEPT ![t.n] = Updated(@, t.missing)]
  /\ given' = [given EXCEPT ![t.n] = @ \union {t.read}]

\* Variant: an error is not returned, and the NodeClaim not queued again.
RequeuedNever(n) == queue

\* Reconcile returned an error.
Requeued(n) == queue \union {n}

\* Variant: Reconcile goes on to the annotation.
GaveUpSilently(t) == tagger' = [pc |-> "annotate", n |-> t.n, read |-> t.read] /\ UNCHANGED queue

\* The SDK gave up: the pass ends.
GaveUp(t) == tagger' = Resting /\ queue' = Requeued(t.n)

-----------------------------------------------------------------------------

\* The instance joins the cluster: Status.NodeName, and an event.
Register(n) ==
  /\ Up(n) /\ n \notin named /\ n \notin deleting
  /\ named' = named \union {n}
  /\ queue' = IF phase = "up" THEN queue \union {n} ELSE queue
  /\ UNCHANGED <<freeFormTags, tags, given, deleting, tagged, tagger, events>>

\* Reconcile, tagInstance: the NodeClass.
TagBegin(n) ==
  /\ phase = "up" /\ tagger.pc = "idle" /\ n \in queue
  /\ queue' = queue \ {n}
  /\ tagger' = IF IsTaggable(n) THEN [pc |-> "get", n |-> n, read |-> freeFormTags] ELSE Resting
  /\ UNCHANGED <<freeFormTags, tags, given, named, deleting, tagged, events>>

\* tagInstance: the instance, and the tags it lacks. That it is terminated is
\* ignored; that OCI no longer knows it is an error.
TagGet ==
  /\ tagger.pc = "get"
  /\ LET t == tagger missing == OmitByKeys(tagger.read, tags[tagger.n]) IN
     \/ /\ Up(t.n) /\ UNCHANGED queue
        /\ tagger' = IF missing = {} THEN [pc |-> "annotate", n |-> t.n, read |-> t.read]
                     ELSE [pc |-> "update", n |-> t.n, read |-> t.read, missing |-> missing, attempt |-> 1]
     \/ ~Up(t.n) /\ tagger' = Resting /\ queue' \in {queue, Requeued(t.n)}
  /\ UNCHANGED <<freeFormTags, tags, given, named, deleting, tagged, events>>

\* CreateTags. 404 and 204 are "not found", which is ignored.
TagUpdate ==
  /\ tagger.pc = "update"
  /\ LET t == tagger IN
     IF Up(t.n)
     THEN Tagged(t) /\ tagger' = [pc |-> "annotate", n |-> t.n, read |-> t.read]
     ELSE tagger' = Resting /\ UNCHANGED <<tags, given>>
  /\ UNCHANGED <<freeFormTags, named, deleting, tagged, queue, events>>

\* An attempt fails, one lost on the way perhaps after it had its effect.
TagUpdateError ==
  /\ tagger.pc = "update" /\ Event
  /\ LET t == tagger IN
     \E e \in Errors :
       /\ IF ShouldRetry(e) /\ t.attempt < MaxAttempts
          THEN tagger' = [t EXCEPT !.attempt = @ + 1] /\ UNCHANGED queue
          ELSE GaveUp(t)
       /\ \/ UNCHANGED <<tags, given>>
          \/ e = "network" /\ Up(t.n) /\ Tagged(t)
  /\ UNCHANGED <<freeFormTags, named, deleting, tagged>>

\* Reconcile: the annotation, by a merge patch.
TagAnnotate ==
  /\ tagger.pc = "annotate"
  /\ tagged' = [tagged EXCEPT ![tagger.n] = tagger.read]
  /\ tagger' = Resting
  /\ UNCHANGED <<freeFormTags, tags, given, named, deleting, queue, events>>

\* The NodeClass or the instance cannot be read, or the patch fails.
TagError ==
  /\ tagger.pc \in {"get", "annotate"} /\ Event
  /\ tagger' = Resting /\ queue' = Requeued(tagger.n)
  /\ UNCHANGED <<freeFormTags, tags, given, named, deleting, tagged>>

\* The user edits the tags of the NodeClasses.
EditTags ==
  /\ Event
  /\ \E ts \in SUBSET Tags : ts # freeFormTags /\ freeFormTags' = ts
  /\ UNCHANGED <<tags, given, named, deleting, tagged, queue, tagger>>

TaggerStep ==
  \/ \E n \in NodeClaims : TagBegin(n)
  \/ TagGet \/ TagUpdate \/ TagAnnotate

TaggingInit ==
  /\ freeFormTags = FirstTags
  /\ tags = [n \in NodeClaims |-> {}] /\ given = [n \in NodeClaims |-> {}]
  /\ tagged = [n \in NodeClaims |-> Nothing]
  /\ named = {} /\ deleting = {} /\ queue = {}
  /\ tagger = Resting
=============================================================================
