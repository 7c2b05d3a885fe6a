--------------------------- MODULE MCAgentActions ---------------------------
(* Values of the constants of AgentActions for TLC. *)
EXTENDS AgentActions

TwoDrives == {"sda", "sdb"}
OneTrim == {"sdb"}
AllFormats == {"checked", "raw"}
AllTables == {"gpt", "full gpt", "mbr", "full mbr"}
=============================================================================
