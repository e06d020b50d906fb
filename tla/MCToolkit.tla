----------------------------- MODULE MCToolkit -----------------------------
(***************************************************************************)
(* Instances of Toolkit for TLC: the scripts that work on the tree (those  *)
(* that another begins with apart), and flash, twice or after a remount,   *)
(* on a board that is not locked or is so in its rom.                      *)
(***************************************************************************)
EXTENDS Toolkit

MCTreeScripts == DOMAIN Commands \ {"recreate", "cleanup", "flash"}

MCOneBoard == {[mode |-> "rom", locked |-> {}]}

MCFlashScripts == {"remount", "flash"}

MCBoards == {[mode |-> "rom", locked |-> {}], [mode |-> "uboot", locked |-> {}],
             [mode |-> "uboot", locked |-> {"rom"}]}
=============================================================================
