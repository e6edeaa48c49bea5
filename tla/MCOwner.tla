------------------------------ MODULE MCOwner ------------------------------
(* Questions to the owner and their answers (HumanInput), and commands typed *)
(* into Saved Messages (SavedCommands).                                      *)
EXTENDS HumanInput, TLC

CONSTANTS r1, n1, n2, None

VARIABLES
  part,  \* the component this behaviour is about
  script, typed, pushed, cursor, batch, events, act, paused, conv, bind, order,
  item, reqs, savedNotes, answer, budget, ran

Kinds(first, second) == [q \in Questions |-> IF q[2] = 1 THEN first ELSE second]
\* Owner commands, faults, and the kinds of a request's two versions.
Asked == {<<1, 1, Kinds("choice", "text")>>, <<1, 0, Kinds("other", "choice")>>,
          <<1, 0, Kinds("text", "other")>>}

Issues == {"i1", "i2"}
C(c) == [cmd |-> c, issue |-> None]
O(i) == [cmd |-> "open", issue |-> i]
Script(s, f, c, m) == [script |-> s, faults |-> f, crashes |-> c, moves |-> m]
Typed ==
  {Script(<<O("i1"), C("resume")>>, 0, 1, 1),
   Script(<<O("i1"), C("resume"), C("resume")>>, 0, 0, 2),
   Script(<<O("i1"), C("text")>>, 2, 0, 1),
   Script(<<O("i1"), C("status")>>, 1, 0, 1),
   Script(<<O("i1"), O("i1")>>, 1, 0, 1),
   Script(<<C("takeover"), C("continue")>>, 1, 0, 1),
   Script(<<O("i1"), C("note"), O("i2")>>, 0, 1, 0),
   Script(<<C("pause"), C("unpause"), C("show")>>, 1, 1, 0)}

SC == INSTANCE SavedCommands WITH
  notes <- savedNotes, PageSize <- 2, Scenarios <- Typed
savedVars == <<script, typed, pushed, cursor, batch, events, act, paused, conv,
               bind, order, item, reqs, savedNotes, answer, budget, ran>>

-----------------------------------------------------------------------------
\* Each behaviour runs one of the components; the others do not move.
PackInit ==
  /\ part \in {"questions", "commands"}
  /\ Init /\ (part = "questions" \/ (ops = 1 /\ faults = 0 /\ kind = Kinds("text", "other")))
  /\ SC!Init /\ (part = "commands" \/ script = <<C("takeover"), C("continue")>>)

PackNext ==
  \/ part = "questions" /\ Next /\ UNCHANGED <<part, savedVars>>
  \/ part = "commands" /\ SC!Next /\ UNCHANGED <<part, vars>>

PackSpec == PackInit /\ [][PackNext]_<<part, vars, savedVars>>

\* The fairness of each component, while it is the one that runs.
PackFairSpec ==
  /\ PackSpec
  /\ WF_vars(part = "questions" /\ Poller)
  /\ WF_vars(part = "questions" /\ ActorWakes)
  /\ \A n \in Notifiers : WF_vars(part = "questions" /\ Notifier(n))
  /\ \A q \in Questions : WF_vars(part = "questions" /\ LeaseExpires(q))
  /\ \A c \in Commands : WF_vars(part = "questions" /\ Handler(c))
  /\ WF_savedVars(part = "commands" /\ SC!pollSavedHistory)
  /\ WF_savedVars(part = "commands" /\ SC!PollNext)
  /\ WF_savedVars(part = "commands" /\ SC!Handler)

-----------------------------------------------------------------------------
\* The owner is told that an answer is theirs only when the platform holds this
\* owner's answer to that very version; an answer never counts for a newer
\* wording; and a version appears once in Saved Messages, through lost answers,
\* restarts and overlapping sweeps.
AnswersAreHonest == YoursIsYours /\ AnswerFitsQuestion /\ OneMessage

\* An open command starts its issue's work at most once, through both delivery
\* paths, crashes and repeats, and a resume that is answered as bound made a
\* request of its own (BindWork, ResumeWork).
CommandsTakeEffectOnce == SC!StartedOnce /\ SC!ResumeIsFresh

\* What is asked and what is typed gets through, though polls, handlers and the
\* process fail: every open question reaches Saved Messages, a row nobody needs to
\* answer is closed, and every command typed after the poller's start is
\* recorded (pollSavedHistory).
OwnerIsHeard == QuestionsArrive /\ RowsSettle /\ SC!NothingLost
=============================================================================
