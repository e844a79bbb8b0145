------------------------------ MODULE MCTrash -------------------------------
(* Instances of Trash for TLC: a photo, perhaps with a Live Photo video, and   *)
(* another photo in the same directory.                                        *)
EXTENDS Trash

CONSTANTS photo, video, other

MCContentOf == [i \in {Still, Bystander} \cup ({Companion} \ {NoId}) |->
                  IF i = Still THEN photo ELSE IF i = Bystander THEN other ELSE video]
=============================================================================
