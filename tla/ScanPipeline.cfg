CONSTANTS
    None = None
    Names <- MCNames
    NameRank <- MCRank
    Contents <- MCContents
    LinesOf <- MCLinesOf
    Parts <- MCParts
    Width <- MCWidth
    MaxDepth = 8
    Ext <- MCExt
    NgModules = {}
    NgComponents = {}
    Ast <- MCAst
    Manifest <- MCManifest
    Secrets <- MCSecrets
    Bytes <- MCBytes
    MaxParseBytes = 2
    MaxSecretBytes = 2
    MaxFindings = 2
    MaxDeclModules = 2
    IdRank <- MCIdRank
    MaxGraphNodes = 3
    MaxFlows = 2
    MaxFlowDepth = 2
    MaxFlowNodes = 3
    Requests <- MCRequests
    Changes <- MCChanges
    Orders <- MCOrders
    MaxEdits = 2
    MaxErrors = 1
SPECIFICATION Spec
INVARIANTS TypeOK WalkIsSelection CopyIsOfSource FindingsAreFirst FlowsAreReached RoutesAreMapped PagesAgree 
\* a run that has ended stops
CHECK_DEADLOCK FALSE
