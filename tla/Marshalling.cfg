SPECIFICATION Spec
CONSTANTS
    Calls <- MCCalls
    Messages <- MCMessages
    Version <- MCVersion
INVARIANTS
    IdentityUdf
    
    
    
    DecodeInverts
