SPECIFICATION Spec
CONSTANTS
    Requests <- AllRequests
    Errors <- SomeErrors
    MaxChanges = 3
    MaxHooks = 1
    Fields <- SomeFields
    Tags <- SomeTags
    AllowedOrigins = {"partner"}
    AllowedMethods = {"GET", "POST"}
    AllowedHeaders = {"x"}
    AllowCredentials = TRUE
    TrustedOrigins = {"own", "partner"}
    SecureCookies = FALSE
    Signed = {"t1", "t2"}
    Required = {"read", "write"}
    SessionKeys <- MCSessionKeys
    Now = 5
    MaxAge = 3
    Skew = 1
INVARIANTS
    RecordedTruly
    SessionIsSent
    OnlyAdmitted
