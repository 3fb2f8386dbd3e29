SPECIFICATION MCFairSpec
CONSTANTS
    h1 = h1  h2 = h2  h3 = h3  v1 = v1  v2 = v2  a1 = a1
    t1 = t1  t2 = t2  NoToken = NoToken
    Conn = {h1, v1, v2}
    RoleOf <- MCRoleOf
    TokenOf <- OneToken
    Script <- Streaming
PROPERTIES
    ClientsOutliveTheirPeers
