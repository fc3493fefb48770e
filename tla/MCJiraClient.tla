---------------------------- MODULE MCJiraClient ----------------------------
(* Instances of JiraClient for TLC.                                        *)
EXTENDS JiraClient, TLC

CONSTANTS c1, c2
=============================================================================
