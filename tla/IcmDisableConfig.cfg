CONSTANTS CfgTries = 2 LinkTries = 2 NhiTries = 2 AuthTries = 2 Settle = 1
SPECIFICATION Spec
PROPERTY ConfigKept
