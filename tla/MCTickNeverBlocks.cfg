CONSTANTS
    keyboard_task = keyboard_task
    httpd_task = httpd_task
    crond_task = crond_task
    Background <- MCBackground
    Period <- MCPeriod
    QueueCap = 4
    InputCap = 1
    MaxInputs = 3
SPECIFICATION Spec
INVARIANT TickNeverBlocks
