------------------------ MODULE MCAutomationWorkflow ------------------------
(* Instances of AutomationWorkflow for TLC.                                *)
EXTENDS AutomationWorkflow

CONSTANTS e1, e2, e3, t1

(* Every event on the same topic.                                          *)
OneTopic == [e \in Events |-> t1]

(* The first event is published more often than the others.                *)
Once == [e \in Events |-> 1]
FirstThrice == [e \in Events |-> IF e = e1 THEN 3 ELSE 1]
=============================================================================
