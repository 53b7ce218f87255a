----------------------------- MODULE MCPipeline -----------------------------
(***************************************************************************)
(* Option sets for the two questions about how the driver uses its tmpdir. *)
(***************************************************************************)
EXTENDS Pipeline

\* Command lines whose tmpdir path is free of ".bc".
MCPlainOptions == {o \in Option : ~o.tmpdir_has_bc}

\* A --tmpdir whose path contains ".bc", with the SIGHUP passes on.
MCBcOptions == {o \in Option : o.tmpdir_has_bc /\ o.user_tmpdir /\ o.replace_sighup}
=============================================================================
