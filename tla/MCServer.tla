------------------------------ MODULE MCServer ------------------------------
(* Server on a small instance. *)
EXTENDS Server

MCSecrets == [pepper |-> "secret", totp_key |-> "hex32"]
MCSmtp == [mode |-> "smtp", smtp_relay |-> "mailpit", from_address |-> "mailbox"]
MCNamesFile == [config_file |-> "/etc/api.toml"]

\* Two that boot, one that names a file, and one for each way to fail.
MCEnvLayers == {
    MCSecrets,
    MCSecrets @@ MCSmtp,
    MCSecrets @@ MCNamesFile,
    [pepper |-> "secret"],
    [pepper |-> "secret", totp_key |-> "short"],
    [from_address |-> "garbage"] @@ MCSecrets @@ MCSmtp,
    MCSecrets @@ [mode |-> "smtp"],
    MCSecrets @@ [mode |-> "pigeon"],
    MCSecrets @@ [filter |-> "garbage"],
    MCSecrets @@ [database_url |-> "garbage"],
    MCSecrets @@ [typo |-> "x"] }

MCFileLayers == {MCSmtp, [filter |-> "garbage"]}
=============================================================================
