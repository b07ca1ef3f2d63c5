SPECIFICATION SizesSpec
CONSTANTS
    WORD = 4194304
    HALF = 2048
    pagesize = 4096
    HeapMax = 1048576
    MapMax = 2097152
    Requests = {0, 1, 16, 17, 24, 25, 31, 32, 33, 48, 100, 159, 160, 161, 512, 991, 992, 993, 1007, 1008, 1009, 3055, 3056, 3057, 3120, 3121, 4080, 4081, 4096, 10224, 10225, 10737, 10752, 45040, 45041, 131072, 163824, 163825, 786416, 786417, 1048576, 2097136, 2097137, 4185000, 4190000, 4194207, 4194208, 4194239, 4194240, 4194300, 4194303}
    Counts = {0, 1, 3, 1000, 1025, 2047, 2048, 2049, 4096, 32768}
    Alignments = {17, 32, 64, 100, 4096, 8192, 2097152, 2097153}
INVARIANTS RoomForRequest ContentsKept BinsSound
