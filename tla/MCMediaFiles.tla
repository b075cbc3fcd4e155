---------------------------- MODULE MCMediaFiles ----------------------------
(* Constants of the model-checking runs of MediaFiles. *)
EXTENDS MediaFiles, TLC

\* Two jobs whose media have the same name, and one job.
SameName == 1 :> "film" @@ 2 :> "film"
OneFilm == 1 :> "film"

\* The sizes of the versions of a media, in chunks.
OneVersion == <<2>>
SecondShorter == <<2, 1>>
=============================================================================
