----------------------------- MODULE MCCrcLoop ------------------------------
(***************************************************************************)
(* getCRC on the payloads of every command: the five commands and two      *)
(* unknown ones, with sample arguments that include the extremes.          *)
(***************************************************************************)
EXTENDS CrcLoop

MCArgs == {0, 1, 18, 49, 128, 167, 255}
MCPayloads ==
         { <<c>> : c \in {5, 18, 255} }
    \cup { <<c, a>> : c \in {1, 2, 3}, a \in MCArgs }
    \cup { <<c, a, b>> : c \in {0, 4}, a \in MCArgs, b \in MCArgs }

=============================================================================
