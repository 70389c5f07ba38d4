------------------------------- MODULE MCAoi --------------------------------
(* Small instances of AoiSpace: points on a line. *)
EXTENDS AoiSpace
CONSTANT Line

MCPoints == {<<x, 0, 0>> : x \in Line}

W == <<TRUE, FALSE>>
M == <<FALSE, TRUE>>
WM == <<TRUE, TRUE>>

\* A watcher, a marker, and one that changes between both and neither.
MCModes == (0 :> {W}) @@ (1 :> {M}) @@ (2 :> {WM, <<FALSE, FALSE>>})
=============================================================================
