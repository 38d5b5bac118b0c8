---------------------------- MODULE MCWriterLease ----------------------------
(* An Environment on a directory, two managed or ordinary ones below it in *)
(* disjoint directories, and a second Environment on one of these.         *)
EXTENDS WriterLease

MCDirs == {"top", "left", "right"}
MCWithin == {<<d, d>> : d \in MCDirs} \cup {<<"top", "left">>, <<"top", "right">>}
MCEnvironments == {"onTop", "onLeft", "alsoLeft", "onRight"}
MCManaged == {"onRight"}
MCRoot == [e \in MCEnvironments |->
              IF e = "onTop" THEN "top" ELSE IF e = "onRight" THEN "right" ELSE "left"]
==============================================================================
