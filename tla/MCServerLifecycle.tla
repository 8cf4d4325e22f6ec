-------------------------- MODULE MCServerLifecycle --------------------------
(* Native authentication with proofs: every startup step is there.          *)
EXTENDS ServerLifecycle

MCSteps == 
    <<"config", "redis", "probe", "authenticator", "policy", "keyring", "start">>
=============================================================================
