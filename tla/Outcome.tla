------------------------------ MODULE Outcome ------------------------------
(***************************************************************************)
(* The outcome algebra (src/internal/observe/outcome.go).  An outcome is   *)
(* "present", the reason of an expected absence, or "defect".              *)
(***************************************************************************)

Reasons == {"unsupported", "permission_denied", "temporarily_unavailable"}
Outcomes == {"present"} \cup Reasons

\* Errors of the platform, as errors.Is tells them apart.
Errors == {"permission", "not_exist", "other"}

\* What is missing is unsupported for some sources, for others it went away.
acquisitionFailure(error, missing) ==
    CASE error = "permission" -> "permission_denied"
      [] error = "not_exist" -> missing
      [] error = "other" -> "temporarily_unavailable"

\* A result of an acquisition and, where it succeeds, of a parser.
Acquisitions == {"parsed", "malformed"} \cup Errors
Acquired(acquisition) ==
    CASE acquisition = "parsed" -> "present"
      [] acquisition = "malformed" -> "temporarily_unavailable"
      [] OTHER -> acquisitionFailure(acquisition, "unsupported")
=============================================================================
