SPECIFICATION RSpec
CONSTANTS
    Followed = {"hostedclusters", "additional-trust-bundle", "oidc-signing-key"}
    Patches = {{}, {""}, {"pem"}}
INVARIANTS NoDesireDangles
CHECK_DEADLOCK FALSE
