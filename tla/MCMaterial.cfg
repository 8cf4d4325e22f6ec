SPECIFICATION MaterialSpec
CONSTANTS
    GenerateCalls <- MCGenerateCalls
    None = None
    Nil = Nil
    Absent = Absent
    NotArray = NotArray
    Bodies <- MCBodies
    DNFields <- MCDNFields
    MaxSubjectValues = 2
    MaxSANs = 3
    MaxSymbols = 7
    Plaintexts <- MCPlaintexts
    Passwords = {1, 2}
    Salts = {1, 2}
    BlockSize = 2
    LineWidth = 3
    MaxText = 16
    MaxEdits = 2
CHECK_DEADLOCK FALSE
INVARIANT OnlyForEntitled
INVARIANT PasswordIsUniform
INVARIANT CertificateIsAsked
INVARIANT RefusesExactlyTheLossy
INVARIANT EnvelopeIsFaithful
PROPERTY PrivateIsContained
