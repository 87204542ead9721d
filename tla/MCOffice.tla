------------------------------ MODULE MCOffice ------------------------------
(***************************************************************************)
(* The parts of the program around the documents, which share no state,    *)
(* checked in one run: `part` is the one whose steps are taken.            *)
(***************************************************************************)
EXTENDS Sources, Handoffs, Leads, NumberRanges, Assistant, MCCalculations

VARIABLE part

vars == <<part, sourcesVars, handoffsVars, leadsVars, numbersVars, assistantVars,
          calculationsVars>>

InSources == part = "sources"
  /\ UNCHANGED <<part, handoffsVars, leadsVars, numbersVars, assistantVars, calculationsVars>>
InHandoffs == part = "handoffs"
  /\ UNCHANGED <<part, sourcesVars, leadsVars, numbersVars, assistantVars, calculationsVars>>
InLeads == part = "leads"
  /\ UNCHANGED <<part, sourcesVars, handoffsVars, numbersVars, assistantVars, calculationsVars>>
InNumbers == part = "numbers"
  /\ UNCHANGED <<part, sourcesVars, handoffsVars, leadsVars, assistantVars, calculationsVars>>
InAssistant == part = "assistant"
  /\ UNCHANGED <<part, sourcesVars, handoffsVars, leadsVars, numbersVars, calculationsVars>>
InCalculations == part = "calculations"
  /\ UNCHANGED <<part, sourcesVars, handoffsVars, leadsVars, numbersVars, assistantVars>>

\* Only the calculations begin with more than one input.
NoTask == [kind |-> "none"]

Init ==
  /\ SourcesInit /\ HandoffsInit /\ LeadsInit /\ NumberRangesInit /\ AssistantInit
  /\ \/ part = "calculations" /\ registered = FALSE /\ CalculationsInit
     \/ part \in {"handoffs", "leads", "numbers", "assistant"} /\ registered = FALSE
        /\ task = NoTask /\ answer = None
     \/ part = "sources" /\ task = NoTask /\ answer = None

Next ==
  \/ InSources /\ SourcesNext
  \/ InHandoffs /\ HandoffsNext
  \/ InLeads /\ LeadsNext
  \/ InNumbers /\ NumberRangesNext
  \/ InAssistant /\ AssistantNext
  \/ InCalculations /\ CalculationsNext

\* Runs that find sources come again, fetch jobs are run and days pass.
Fairness ==
  /\ \A f \in Finders : WF_sourcesVars(part = "sources" /\ FinderStep(f))
  /\ WF_sourcesVars(part = "sources" /\ FetchStep)
  /\ WF_sourcesVars(part = "sources" /\ DayPasses)

Spec == Init /\ [][Next]_vars /\ Fairness

\* The variables of the part that moves have their types; the others keep their
\* initial values.
TypeOK ==
  /\ part = "sources" => SourcesTypeOK
  /\ part = "handoffs" => HandoffsTypeOK
  /\ part = "leads" => LeadsTypeOK
  /\ part = "numbers" => NumberRangesTypeOK
  /\ part = "assistant" => AssistantTypeOK
=============================================================================
