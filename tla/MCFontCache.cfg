SPECIFICATION Spec
CONSTANTS
    Letters = {1, 2, 3}
    CacheCount = 2
    ReadsFail = FALSE
    MaxFonts = 2
INVARIANT CachedGlyphIsCurrent
